---- MODULE Spec2Model ----
(***************************************************************************)
(* A model of mini-gpt (src/mini-gpt/src/lib.rs): the CRC-32 engine, the   *)
(* GPT header and partition entry array codecs, the protective MBR codec,  *)
(* the disk layout calculator and the gpt_info aggregator.                 *)
(*                                                                         *)
(* Representation.  TLC integers are 32-bit signed, the program's are u8   *)
(* to u128.  A u8 is an integer 0..255; every wider unsigned integer is    *)
(* the tuple of its little-endian bytes (u16: 2, u32: 4, u64: 8, u128: 16  *)
(* bytes), so that from_le_bytes of a slice is the slice itself and all    *)
(* arithmetic is done on bytes, with the width of the Rust type.           *)
(***************************************************************************)
EXTENDS Integers, Sequences, FiniteSets, TLC

----------------------------------------------------------------------------
(* Bytes and fixed-width little-endian words                               *)

Byte == 0..255

\* n zero bytes: [0; n]
Zeros(n) == [i \in 1..n |-> 0]

\* raw[a..b] of Rust (0-based, b exclusive) on a 1-based tuple
Slice(raw, a, b) == SubSeq(raw, a + 1, b)

\* the value of a little-endian word, for words known to be below 2^31
RECURSIVE LeVal(_)
LeVal(w) == IF w = <<>> THEN 0 ELSE w[1] + 256 * LeVal(Tail(w))

\* whether a little-endian word is below 2^31 (fits a TLC integer)
IsSmall(w) ==
    /\ \A i \in 5..Len(w) : w[i] = 0
    /\ Len(w) >= 4 => w[4] < 128

\* n.to_le_bytes() for a small non-negative n, as a word of `width` bytes
RECURSIVE ToLe(_, _)
ToLe(n, width) ==
    IF width = 0 THEN <<>> ELSE <<n % 256>> \o ToLe(n \div 256, width - 1)

\* a u32 written most significant byte first, as the source writes it in hex
W(a, b, c, d) == <<d, c, b, a>>

\* bitwise XOR of two 4-bit values, bit by bit
NibXorBits(a, b) ==
      ((a + b) % 2)
    + 2 * (((a \div 2) + (b \div 2)) % 2)
    + 4 * (((a \div 4) + (b \div 4)) % 2)
    + 8 * (((a \div 8) + (b \div 8)) % 2)

NibXor == [a \in 0..15 |-> [b \in 0..15 |-> NibXorBits(a, b)]]

\* u8 ^ u8
XorByte(a, b) == 16 * NibXor[a \div 16][b \div 16] + NibXor[a % 16][b % 16]

----------------------------------------------------------------------------
(* Checksum engine                                                         *)

CRC32_LUT == <<
    W(\h00,\h00,\h00,\h00), W(\h77,\h07,\h30,\h96), W(\hEE,\h0E,\h61,\h2C), W(\h99,\h09,\h51,\hBA),
    W(\h07,\h6D,\hC4,\h19), W(\h70,\h6A,\hF4,\h8F), W(\hE9,\h63,\hA5,\h35), W(\h9E,\h64,\h95,\hA3),
    W(\h0E,\hDB,\h88,\h32), W(\h79,\hDC,\hB8,\hA4), W(\hE0,\hD5,\hE9,\h1E), W(\h97,\hD2,\hD9,\h88),
    W(\h09,\hB6,\h4C,\h2B), W(\h7E,\hB1,\h7C,\hBD), W(\hE7,\hB8,\h2D,\h07), W(\h90,\hBF,\h1D,\h91),
    W(\h1D,\hB7,\h10,\h64), W(\h6A,\hB0,\h20,\hF2), W(\hF3,\hB9,\h71,\h48), W(\h84,\hBE,\h41,\hDE),
    W(\h1A,\hDA,\hD4,\h7D), W(\h6D,\hDD,\hE4,\hEB), W(\hF4,\hD4,\hB5,\h51), W(\h83,\hD3,\h85,\hC7),
    W(\h13,\h6C,\h98,\h56), W(\h64,\h6B,\hA8,\hC0), W(\hFD,\h62,\hF9,\h7A), W(\h8A,\h65,\hC9,\hEC),
    W(\h14,\h01,\h5C,\h4F), W(\h63,\h06,\h6C,\hD9), W(\hFA,\h0F,\h3D,\h63), W(\h8D,\h08,\h0D,\hF5),
    W(\h3B,\h6E,\h20,\hC8), W(\h4C,\h69,\h10,\h5E), W(\hD5,\h60,\h41,\hE4), W(\hA2,\h67,\h71,\h72),
    W(\h3C,\h03,\hE4,\hD1), W(\h4B,\h04,\hD4,\h47), W(\hD2,\h0D,\h85,\hFD), W(\hA5,\h0A,\hB5,\h6B),
    W(\h35,\hB5,\hA8,\hFA), W(\h42,\hB2,\h98,\h6C), W(\hDB,\hBB,\hC9,\hD6), W(\hAC,\hBC,\hF9,\h40),
    W(\h32,\hD8,\h6C,\hE3), W(\h45,\hDF,\h5C,\h75), W(\hDC,\hD6,\h0D,\hCF), W(\hAB,\hD1,\h3D,\h59),
    W(\h26,\hD9,\h30,\hAC), W(\h51,\hDE,\h00,\h3A), W(\hC8,\hD7,\h51,\h80), W(\hBF,\hD0,\h61,\h16),
    W(\h21,\hB4,\hF4,\hB5), W(\h56,\hB3,\hC4,\h23), W(\hCF,\hBA,\h95,\h99), W(\hB8,\hBD,\hA5,\h0F),
    W(\h28,\h02,\hB8,\h9E), W(\h5F,\h05,\h88,\h08), W(\hC6,\h0C,\hD9,\hB2), W(\hB1,\h0B,\hE9,\h24),
    W(\h2F,\h6F,\h7C,\h87), W(\h58,\h68,\h4C,\h11), W(\hC1,\h61,\h1D,\hAB), W(\hB6,\h66,\h2D,\h3D),
    W(\h76,\hDC,\h41,\h90), W(\h01,\hDB,\h71,\h06), W(\h98,\hD2,\h20,\hBC), W(\hEF,\hD5,\h10,\h2A),
    W(\h71,\hB1,\h85,\h89), W(\h06,\hB6,\hB5,\h1F), W(\h9F,\hBF,\hE4,\hA5), W(\hE8,\hB8,\hD4,\h33),
    W(\h78,\h07,\hC9,\hA2), W(\h0F,\h00,\hF9,\h34), W(\h96,\h09,\hA8,\h8E), W(\hE1,\h0E,\h98,\h18),
    W(\h7F,\h6A,\h0D,\hBB), W(\h08,\h6D,\h3D,\h2D), W(\h91,\h64,\h6C,\h97), W(\hE6,\h63,\h5C,\h01),
    W(\h6B,\h6B,\h51,\hF4), W(\h1C,\h6C,\h61,\h62), W(\h85,\h65,\h30,\hD8), W(\hF2,\h62,\h00,\h4E),
    W(\h6C,\h06,\h95,\hED), W(\h1B,\h01,\hA5,\h7B), W(\h82,\h08,\hF4,\hC1), W(\hF5,\h0F,\hC4,\h57),
    W(\h65,\hB0,\hD9,\hC6), W(\h12,\hB7,\hE9,\h50), W(\h8B,\hBE,\hB8,\hEA), W(\hFC,\hB9,\h88,\h7C),
    W(\h62,\hDD,\h1D,\hDF), W(\h15,\hDA,\h2D,\h49), W(\h8C,\hD3,\h7C,\hF3), W(\hFB,\hD4,\h4C,\h65),
    W(\h4D,\hB2,\h61,\h58), W(\h3A,\hB5,\h51,\hCE), W(\hA3,\hBC,\h00,\h74), W(\hD4,\hBB,\h30,\hE2),
    W(\h4A,\hDF,\hA5,\h41), W(\h3D,\hD8,\h95,\hD7), W(\hA4,\hD1,\hC4,\h6D), W(\hD3,\hD6,\hF4,\hFB),
    W(\h43,\h69,\hE9,\h6A), W(\h34,\h6E,\hD9,\hFC), W(\hAD,\h67,\h88,\h46), W(\hDA,\h60,\hB8,\hD0),
    W(\h44,\h04,\h2D,\h73), W(\h33,\h03,\h1D,\hE5), W(\hAA,\h0A,\h4C,\h5F), W(\hDD,\h0D,\h7C,\hC9),
    W(\h50,\h05,\h71,\h3C), W(\h27,\h02,\h41,\hAA), W(\hBE,\h0B,\h10,\h10), W(\hC9,\h0C,\h20,\h86),
    W(\h57,\h68,\hB5,\h25), W(\h20,\h6F,\h85,\hB3), W(\hB9,\h66,\hD4,\h09), W(\hCE,\h61,\hE4,\h9F),
    W(\h5E,\hDE,\hF9,\h0E), W(\h29,\hD9,\hC9,\h98), W(\hB0,\hD0,\h98,\h22), W(\hC7,\hD7,\hA8,\hB4),
    W(\h59,\hB3,\h3D,\h17), W(\h2E,\hB4,\h0D,\h81), W(\hB7,\hBD,\h5C,\h3B), W(\hC0,\hBA,\h6C,\hAD),
    W(\hED,\hB8,\h83,\h20), W(\h9A,\hBF,\hB3,\hB6), W(\h03,\hB6,\hE2,\h0C), W(\h74,\hB1,\hD2,\h9A),
    W(\hEA,\hD5,\h47,\h39), W(\h9D,\hD2,\h77,\hAF), W(\h04,\hDB,\h26,\h15), W(\h73,\hDC,\h16,\h83),
    W(\hE3,\h63,\h0B,\h12), W(\h94,\h64,\h3B,\h84), W(\h0D,\h6D,\h6A,\h3E), W(\h7A,\h6A,\h5A,\hA8),
    W(\hE4,\h0E,\hCF,\h0B), W(\h93,\h09,\hFF,\h9D), W(\h0A,\h00,\hAE,\h27), W(\h7D,\h07,\h9E,\hB1),
    W(\hF0,\h0F,\h93,\h44), W(\h87,\h08,\hA3,\hD2), W(\h1E,\h01,\hF2,\h68), W(\h69,\h06,\hC2,\hFE),
    W(\hF7,\h62,\h57,\h5D), W(\h80,\h65,\h67,\hCB), W(\h19,\h6C,\h36,\h71), W(\h6E,\h6B,\h06,\hE7),
    W(\hFE,\hD4,\h1B,\h76), W(\h89,\hD3,\h2B,\hE0), W(\h10,\hDA,\h7A,\h5A), W(\h67,\hDD,\h4A,\hCC),
    W(\hF9,\hB9,\hDF,\h6F), W(\h8E,\hBE,\hEF,\hF9), W(\h17,\hB7,\hBE,\h43), W(\h60,\hB0,\h8E,\hD5),
    W(\hD6,\hD6,\hA3,\hE8), W(\hA1,\hD1,\h93,\h7E), W(\h38,\hD8,\hC2,\hC4), W(\h4F,\hDF,\hF2,\h52),
    W(\hD1,\hBB,\h67,\hF1), W(\hA6,\hBC,\h57,\h67), W(\h3F,\hB5,\h06,\hDD), W(\h48,\hB2,\h36,\h4B),
    W(\hD8,\h0D,\h2B,\hDA), W(\hAF,\h0A,\h1B,\h4C), W(\h36,\h03,\h4A,\hF6), W(\h41,\h04,\h7A,\h60),
    W(\hDF,\h60,\hEF,\hC3), W(\hA8,\h67,\hDF,\h55), W(\h31,\h6E,\h8E,\hEF), W(\h46,\h69,\hBE,\h79),
    W(\hCB,\h61,\hB3,\h8C), W(\hBC,\h66,\h83,\h1A), W(\h25,\h6F,\hD2,\hA0), W(\h52,\h68,\hE2,\h36),
    W(\hCC,\h0C,\h77,\h95), W(\hBB,\h0B,\h47,\h03), W(\h22,\h02,\h16,\hB9), W(\h55,\h05,\h26,\h2F),
    W(\hC5,\hBA,\h3B,\hBE), W(\hB2,\hBD,\h0B,\h28), W(\h2B,\hB4,\h5A,\h92), W(\h5C,\hB3,\h6A,\h04),
    W(\hC2,\hD7,\hFF,\hA7), W(\hB5,\hD0,\hCF,\h31), W(\h2C,\hD9,\h9E,\h8B), W(\h5B,\hDE,\hAE,\h1D),
    W(\h9B,\h64,\hC2,\hB0), W(\hEC,\h63,\hF2,\h26), W(\h75,\h6A,\hA3,\h9C), W(\h02,\h6D,\h93,\h0A),
    W(\h9C,\h09,\h06,\hA9), W(\hEB,\h0E,\h36,\h3F), W(\h72,\h07,\h67,\h85), W(\h05,\h00,\h57,\h13),
    W(\h95,\hBF,\h4A,\h82), W(\hE2,\hB8,\h7A,\h14), W(\h7B,\hB1,\h2B,\hAE), W(\h0C,\hB6,\h1B,\h38),
    W(\h92,\hD2,\h8E,\h9B), W(\hE5,\hD5,\hBE,\h0D), W(\h7C,\hDC,\hEF,\hB7), W(\h0B,\hDB,\hDF,\h21),
    W(\h86,\hD3,\hD2,\hD4), W(\hF1,\hD4,\hE2,\h42), W(\h68,\hDD,\hB3,\hF8), W(\h1F,\hDA,\h83,\h6E),
    W(\h81,\hBE,\h16,\hCD), W(\hF6,\hB9,\h26,\h5B), W(\h6F,\hB0,\h77,\hE1), W(\h18,\hB7,\h47,\h77),
    W(\h88,\h08,\h5A,\hE6), W(\hFF,\h0F,\h6A,\h70), W(\h66,\h06,\h3B,\hCA), W(\h11,\h01,\h0B,\h5C),
    W(\h8F,\h65,\h9E,\hFF), W(\hF8,\h62,\hAE,\h69), W(\h61,\h6B,\hFF,\hD3), W(\h16,\h6C,\hCF,\h45),
    W(\hA0,\h0A,\hE2,\h78), W(\hD7,\h0D,\hD2,\hEE), W(\h4E,\h04,\h83,\h54), W(\h39,\h03,\hB3,\hC2),
    W(\hA7,\h67,\h26,\h61), W(\hD0,\h60,\h16,\hF7), W(\h49,\h69,\h47,\h4D), W(\h3E,\h6E,\h77,\hDB),
    W(\hAE,\hD1,\h6A,\h4A), W(\hD9,\hD6,\h5A,\hDC), W(\h40,\hDF,\h0B,\h66), W(\h37,\hD8,\h3B,\hF0),
    W(\hA9,\hBC,\hAE,\h53), W(\hDE,\hBB,\h9E,\hC5), W(\h47,\hB2,\hCF,\h7F), W(\h30,\hB5,\hFF,\hE9),
    W(\hBD,\hBD,\hF2,\h1C), W(\hCA,\hBA,\hC2,\h8A), W(\h53,\hB3,\h93,\h30), W(\h24,\hB4,\hA3,\hA6),
    W(\hBA,\hD0,\h36,\h05), W(\hCD,\hD7,\h06,\h93), W(\h54,\hDE,\h57,\h29), W(\h23,\hD9,\h67,\hBF),
    W(\hB3,\h66,\h7A,\h2E), W(\hC4,\h61,\h4A,\hB8), W(\h5D,\h68,\h1B,\h02), W(\h2A,\h6F,\h2B,\h94),
    W(\hB4,\h0B,\hBE,\h37), W(\hC3,\h0C,\h8E,\hA1), W(\h5A,\h05,\hDF,\h1B), W(\h2D,\h02,\hEF,\h8D)
>>

\* a variant of Crc32Step that indexes the table with the byte alone
Crc32StepIndexByByte(crc, byte) ==
    LET t == CRC32_LUT[byte + 1]
    IN  <<XorByte(crc[2], t[1]), XorByte(crc[3], t[2]),
          XorByte(crc[4], t[3]), t[4]>>

\* one iteration of the loop of crc32: the register is a u32 (4 LE bytes)
Crc32Step(crc, byte) ==
    LET index == XorByte(crc[1], byte)      \* ((crc32 ^ byte) & 0xFF)
        t == CRC32_LUT[index + 1]
    IN  <<XorByte(crc[2], t[1]), XorByte(crc[3], t[2]),
          XorByte(crc[4], t[3]), t[4]>>     \* (crc32 >> 8) ^ CRC32_LUT[index]

\* the loop `for &byte in data` over data[lo..=hi] (1-based).  The bytes are
\* folded in index order; the range is split in halves and the register of the
\* left half is evaluated (its length read) before the right half starts, which
\* keeps TLC's evaluation stack shallow.
RECURSIVE Crc32Loop(_, _, _, _)
Crc32Loop(crc, data, lo, hi) ==
    IF lo > hi THEN crc
    ELSE IF lo = hi THEN Crc32Step(crc, data[lo])
    ELSE LET mid == (lo + hi) \div 2
             left == Crc32Loop(crc, data, lo, mid)
         IN  IF Len(left) = 4 THEN Crc32Loop(left, data, mid + 1, hi) ELSE left

crc32(data) ==
    LET r == Crc32Loop(<<255, 255, 255, 255>>, data, 1, Len(data))
    IN  <<255 - r[1], 255 - r[2], 255 - r[3], 255 - r[4]>>

----------------------------------------------------------------------------
(* Unsigned arithmetic on little-endian words                              *)

\* a + b + c for two words of the same width: <<wrapped sum, carry out>>
RECURSIVE AddCarry(_, _, _)
AddCarry(a, b, c) ==
    IF a = <<>> THEN <<<<>>, c>>
    ELSE LET s == a[1] + b[1] + c
             r == AddCarry(Tail(a), Tail(b), s \div 256)
         IN  <<(<<s % 256>>) \o r[1], r[2]>>

\* the result of an arithmetic operation of Rust: ok is FALSE when the exact
\* result does not fit the type (a build with overflow checks panics there),
\* v is the result modulo 2^width (what a build without them computes)
Arith(ok, v) == [ok |-> ok, v |-> v]

\* a + b
AddWord(a, b) ==
    LET r == AddCarry(a, b, 0) IN Arith(r[2] = 0, r[1])

\* a - b, by two's complement: a + ~b + 1; the carry out is 1 iff a >= b
SubWord(a, b) ==
    LET r == AddCarry(a, [i \in 1..Len(b) |-> 255 - b[i]], 1)
    IN  Arith(r[2] = 1, r[1])

\* a * LOGICAL_BLOCK_SIZE for a u64 a: a shift left by 9 bits
MulBy512(w) ==
    LET dbl(i) == ((2 * w[i]) % 256) + (IF i = 1 THEN 0 ELSE w[i - 1] \div 128)
    IN  Arith(w[8] = 0 /\ w[7] < 128, <<0>> \o [i \in 1..7 |-> dbl(i)])

\* a / LOGICAL_BLOCK_SIZE for a u64 a: a shift right by 9 bits
DivBy512(w) ==
    LET half(i) == (w[i] \div 2) + (IF i = 8 THEN 0 ELSE 128 * (w[i + 1] % 2))
    IN  [i \in 1..7 |-> half(i + 1)] \o <<0>>

\* column k (1-based) of the schoolbook product of two u32
MulColumn(a, b, k) ==
      (IF k     \in 1..4 THEN a[1] * b[k]     ELSE 0)
    + (IF k - 1 \in 1..4 THEN a[2] * b[k - 1] ELSE 0)
    + (IF k - 2 \in 1..4 THEN a[3] * b[k - 2] ELSE 0)
    + (IF k - 3 \in 1..4 THEN a[4] * b[k - 3] ELSE 0)

RECURSIVE MulCarry(_, _, _, _)
MulCarry(a, b, k, c) ==
    IF k > 7 THEN <<c % 256>>
    ELSE LET s == MulColumn(a, b, k) + c
         IN  <<s % 256>> \o MulCarry(a, b, k + 1, s \div 256)

\* a * b for two u32
MulU32(a, b) ==
    LET p == MulCarry(a, b, 1, 0)       \* the exact 64-bit product
    IN  Arith(SubSeq(p, 5, 8) = Zeros(4), SubSeq(p, 1, 4))

\* `x as u64` for a u32 x
U32AsU64(w) == w \o Zeros(4)

\* w < k and w > k for a word w and a small constant k
LtSmall(w, k) == IsSmall(w) /\ LeVal(w) < k
GtSmall(w, k) == ~IsSmall(w) \/ LeVal(w) > k

----------------------------------------------------------------------------
(* Results and errors                                                      *)

\* Result<T, Error>: Ok(v) or Err(e)
Ok(v) == [ok |-> TRUE, v |-> v]
Err(e) == [ok |-> FALSE, err |-> e]

\* enum Error; a variant is a record of its name and its payload
Error(kind) == [kind |-> kind]
ErrorValue(kind, value) == [kind |-> kind, value |-> value]
ErrorChecksum(kind, computed, expected) ==
    [kind |-> kind, computed |-> computed, expected |-> expected]

----------------------------------------------------------------------------
(* GPT header codec                                                        *)

LOGICAL_BLOCK_SIZE == 512
\* 0x5452415020494645, the bytes "EFI PART"
REQUIRED_SIGNATURE == <<\h45, \h46, \h49, \h20, \h50, \h41, \h52, \h54>>
\* 0x10000
THIS_REVISION == W(\h00, \h01, \h00, \h00)
MIN_HEADER_SIZE == 92

\* Uuid::from_fields(d1, d2, d3, &d4): a Uuid is its 16 bytes, the three
\* integer fields most significant byte first, then d4 as it is
guid_to_uuid(guid) ==
    LET d1 == SubSeq(guid, 1, 4)        \* guid as u32
        d2 == SubSeq(guid, 5, 6)        \* (guid >> 32) as u16
        d3 == SubSeq(guid, 7, 8)        \* (guid >> 48) as u16
        d4 == SubSeq(guid, 9, 16)       \* ((guid >> 64) as u64).to_le_bytes()
    IN  <<d1[4], d1[3], d1[2], d1[1], d2[2], d2[1], d3[2], d3[1]>> \o d4

\* a variant of crc32_from_logical_block that zeroes the reserved field [20,24)
\* along with the checksum field
Crc32ZeroingReserved(logical_block, header_size) ==
    crc32([i \in 1..LeVal(header_size) |->
              IF i \in 17..24 THEN 0 ELSE logical_block[i]])

\* GptHeader::crc32_from_logical_block; header_size is within 92..512 here
crc32_from_logical_block(logical_block, header_size) ==
    LET copy == [i \in 1..LOGICAL_BLOCK_SIZE |->
                    IF i \in 17..20 THEN 0 ELSE logical_block[i]]
    IN  crc32(SubSeq(copy, 1, LeVal(header_size)))

\* a variant of the range check with its lower limit one too high
HeaderSizeOffByOne(header_size) ==
    LtSmall(header_size, MIN_HEADER_SIZE + 1) \/ GtSmall(header_size, LOGICAL_BLOCK_SIZE)

\* header_size < MIN_HEADER_SIZE || header_size as usize > LOGICAL_BLOCK_SIZE
header_size_out_of_range(header_size) ==
    LtSmall(header_size, MIN_HEADER_SIZE) \/ GtSmall(header_size, LOGICAL_BLOCK_SIZE)

\* for &b in &raw[92..] { if b != 0 { return Err(Error::UnexpectedNonZeroValue) } }
padding_non_zero(raw) == \E i \in 93..Len(raw) : raw[i] # 0

GptHeader_parse(raw) ==
    LET signature == Slice(raw, 0, 8)
        revision == Slice(raw, 8, 12)
        header_size == Slice(raw, 12, 16)
        header_crc32 == Slice(raw, 16, 20)
    IN
    IF signature # REQUIRED_SIGNATURE
      THEN Err(ErrorValue("InvalidSignature", signature))
    ELSE IF revision # THIS_REVISION
      THEN Err(ErrorValue("IncorrectRevision", revision))
    ELSE IF header_size_out_of_range(header_size)
      THEN Err(ErrorValue("InvalidHeaderSize", header_size))
    ELSE LET computed_crc32 == crc32_from_logical_block(raw, header_size) IN
    IF computed_crc32 # header_crc32
      THEN Err(ErrorChecksum("HeaderChecksumMismatch", computed_crc32, header_crc32))
    ELSE IF Slice(raw, 20, 24) # Zeros(4)
      THEN Err(Error("UnexpectedNonZeroValue"))
    ELSE IF padding_non_zero(raw)
      THEN Err(Error("UnexpectedNonZeroValue"))
    ELSE Ok([revision |-> revision,
             header_size |-> header_size,
             header_crc32 |-> header_crc32,
             my_lba |-> Slice(raw, 24, 32),
             alternate_lba |-> Slice(raw, 32, 40),
             first_usable_lba |-> Slice(raw, 40, 48),
             last_usable_lba |-> Slice(raw, 48, 56),
             disk_guid |-> guid_to_uuid(Slice(raw, 56, 72)),
             partition_entry_lba |-> Slice(raw, 72, 80),
             number_of_partition_entries |-> Slice(raw, 80, 84),
             size_of_partition_entry |-> Slice(raw, 84, 88),
             partition_entry_array_crc32 |-> Slice(raw, 88, 92)])

\* GptHeader::partition_entry_array_byte_range: the three operations that can
\* overflow, then the range; ok is FALSE when one of them overflowed
partition_entry_array_byte_range(self) ==
    LET start == MulBy512(self.partition_entry_lba)
        size == MulU32(self.size_of_partition_entry, self.number_of_partition_entries)
        end == AddWord(start.v, U32AsU64(size.v))
    IN  [ok |-> start.ok /\ size.ok /\ end.ok, start |-> start.v, end |-> end.v]

\* a variant of the comparison that asks for all three equalities
CompareAllThree(header, backup) ==
    IF /\ header.my_lba = backup.alternate_lba
       /\ header.alternate_lba = backup.my_lba
       /\ header.disk_guid = backup.disk_guid
      THEN Ok(<<>>)
      ELSE Err(Error("HeaderDoesNotMatchBackup"))

\* GptHeader::compare_header_and_backup_header: Ok when any one of the three
\* equalities holds
compare_header_and_backup_header(header, backup) ==
    IF \/ header.my_lba = backup.alternate_lba
       \/ header.alternate_lba = backup.my_lba
       \/ header.disk_guid = backup.disk_guid
      THEN Ok(<<>>)
      ELSE Err(Error("HeaderDoesNotMatchBackup"))

----------------------------------------------------------------------------
(* Partition entry array codec                                             *)

\* a panic (a failed slice bound, a zero chunk size, a checked overflow): the
\* call does not return
Panic(why) == [ok |-> FALSE, panic |-> why]
IsPanic(r) == ~r.ok /\ "panic" \in DOMAIN r
IsErr(r) == ~r.ok /\ "err" \in DOMAIN r

\* slice.chunks(n) for n > 0
RECURSIVE Chunks(_, _)
Chunks(s, n) ==
    IF s = <<>> THEN <<>>
    ELSE IF Len(s) <= n THEN <<s>>
    ELSE <<SubSeq(s, 1, n)>> \o Chunks(SubSeq(s, n + 1, Len(s)), n)

\* .take_while(|&c| c != 0) on u16 code units
RECURSIVE TakeWhileNonZero(_)
TakeWhileNonZero(units) ==
    IF units = <<>> \/ units[1] = 0 THEN <<>>
    ELSE <<units[1]>> \o TakeWhileNonZero(Tail(units))

\* String::from_utf16_lossy: the code points of the string; a surrogate pair
\* is one code point, an unpaired surrogate becomes U+FFFD
RECURSIVE from_utf16_lossy(_)
from_utf16_lossy(units) ==
    IF units = <<>> THEN <<>>
    ELSE LET u == units[1] IN
      IF u \in \hD800..\hDBFF /\ Len(units) >= 2 /\ units[2] \in \hDC00..\hDFFF
        THEN <<\h10000 + (u - \hD800) * \h400 + (units[2] - \hDC00)>>
             \o from_utf16_lossy(Tail(Tail(units)))
      ELSE IF u \in \hD800..\hDFFF
        THEN <<\hFFFD>> \o from_utf16_lossy(Tail(units))
      ELSE <<u>> \o from_utf16_lossy(Tail(units))

\* PartitionEntry::parse; every slice index is within 128 bytes
PartitionEntry_parse(bytes) ==
    IF Len(bytes) < 128 THEN Panic("slice index out of range")
    ELSE LET partition_name_bytes == Slice(bytes, 56, 128)
             units == [i \in 1..36 |-> partition_name_bytes[2 * i - 1]
                                        + 256 * partition_name_bytes[2 * i]]
         IN  Ok([partition_type_guid |-> guid_to_uuid(Slice(bytes, 0, 16)),
                 unique_partition_guid |-> guid_to_uuid(Slice(bytes, 16, 32)),
                 starting_lba |-> Slice(bytes, 32, 40),
                 ending_lba |-> Slice(bytes, 40, 48),
                 attributes |-> Slice(bytes, 48, 56),
                 partition_name |-> from_utf16_lossy(TakeWhileNonZero(units))])

\* .map(Self::parse) ... .collect::<Vec<_>>(): the first panic ends it
RECURSIVE ParseChunks(_)
ParseChunks(chunks) ==
    IF chunks = <<>> THEN Ok(<<>>)
    ELSE LET first == PartitionEntry_parse(chunks[1]) IN
         IF ~first.ok THEN first
         ELSE LET rest == ParseChunks(Tail(chunks)) IN
              IF ~rest.ok THEN rest ELSE Ok(<<first.v>> \o rest.v)

\* the chunk size `header.size_of_partition_entry as usize`, as far as it
\* matters for a slice of this length
ChunkSize(size_of_partition_entry, len) ==
    IF IsSmall(size_of_partition_entry) /\ LeVal(size_of_partition_entry) <= len
      THEN LeVal(size_of_partition_entry)
      ELSE len + 1

\* PartitionEntry::parse_array followed by the caller's collect
PartitionEntry_parse_array(raw, header) ==
    LET computed_crc32 == crc32(raw) IN
    IF computed_crc32 # header.partition_entry_array_crc32
      THEN Err(ErrorChecksum("PartitionEntryArrayChecksumMismatch",
                             computed_crc32, header.partition_entry_array_crc32))
    ELSE IF header.size_of_partition_entry = Zeros(4)
      THEN Panic("chunk size must be non-zero")
    ELSE ParseChunks(Chunks(raw, ChunkSize(header.size_of_partition_entry, Len(raw))))

\* PartitionEntry::partition_byte_range
partition_byte_range(self) ==
    LET start == MulBy512(self.starting_lba)
        next == AddWord(self.ending_lba, ToLe(1, 8))
        end == MulBy512(next.v)
    IN  [ok |-> start.ok /\ next.ok /\ end.ok, start |-> start.v, end |-> end.v]

----------------------------------------------------------------------------
(* Protective MBR codec                                                    *)

BOOT_CODE_SIZE == 440
PARTITION_RECORD_COUNT == 4
MBR_REQUIRED_SIGNATURE == <<\h55, \hAA>>    \* 0xAA55
UNIQUE_MBR_SIGNATURE_OFFSET == BOOT_CODE_SIZE
PARTITION_RECORD_OFFSET == 446
PARTITION_RECORD_SIZE == 16
SIGNATURE_OFFSET == 510

Mbr_parse(raw) ==
    LET record(i) ==
            LET base == PARTITION_RECORD_OFFSET + i * PARTITION_RECORD_SIZE
                partition_record_bytes == Slice(raw, base, base + PARTITION_RECORD_SIZE)
            IN  [boot_indicator |-> partition_record_bytes[1],
                 starting_chs |-> SubSeq(partition_record_bytes, 2, 4) \o <<0>>,
                 os_type |-> partition_record_bytes[5],
                 ending_chs |-> SubSeq(partition_record_bytes, 6, 8) \o <<0>>,
                 starting_lba |-> SubSeq(partition_record_bytes, 9, 12),
                 size_in_lba |-> SubSeq(partition_record_bytes, 13, 16)]
        signature == <<raw[SIGNATURE_OFFSET + 1], raw[SIGNATURE_OFFSET + 2]>>
    IN  IF signature = MBR_REQUIRED_SIGNATURE
          THEN Ok([boot_code |-> Slice(raw, 0, BOOT_CODE_SIZE),
                   unique_mbr_disk_signature |->
                       Slice(raw, UNIQUE_MBR_SIGNATURE_OFFSET, UNIQUE_MBR_SIGNATURE_OFFSET + 4),
                   partition_record |-> [i \in 1..PARTITION_RECORD_COUNT |-> record(i - 1)],
                   signature |-> signature])
          ELSE Err(ErrorValue("InvalidMbrSignature", signature))

----------------------------------------------------------------------------
(* Disk layout calculator                                                  *)

\* (size.saturating_sub(1) / LOGICAL_BLOCK_SIZE as u64) + 1
size_in_bytes_to_num_logical_blocks(size) ==
    LET minus1 == SubWord(size, ToLe(1, 8))
        saturating_sub == IF minus1.ok THEN minus1.v ELSE Zeros(8)
    IN  AddWord(DivBy512(saturating_sub), ToLe(1, 8)).v

----------------------------------------------------------------------------
(* Input blocks: what a disk can hold where a GPT header is expected.      *)
(* The library has no header encoder; these blocks are laid out by the     *)
(* offsets that GptHeader::parse reads, as a disk tool would write them.   *)

\* the 92 bytes of the fields of h, the checksum field zero
HeaderFieldBytes(h) ==
    h.signature \o h.revision \o h.header_size \o Zeros(4) \o h.reserved
    \o h.my_lba \o h.alternate_lba \o h.first_usable_lba \o h.last_usable_lba
    \o h.disk_guid \o h.partition_entry_lba \o h.number_of_partition_entries
    \o h.size_of_partition_entry \o h.partition_entry_array_crc32

\* the 512 bytes of h with a zero checksum field: its fields, then `tail`
\* from offset 92, then zeros
PlainBlock(h, tail) ==
    HeaderFieldBytes(h) \o tail
    \o Zeros(LOGICAL_BLOCK_SIZE - MIN_HEADER_SIZE - Len(tail))

\* how many bytes the checksum of the block of h covers: header_size, or 92
\* when header_size is out of range
ChecksummedLen(h) ==
    IF header_size_out_of_range(h.header_size)
      THEN MIN_HEADER_SIZE ELSE LeVal(h.header_size)

\* `plain` with the checksum c in the checksum field, XORed with crc_delta in
\* its lowest byte (0: a correct checksum)
PutChecksum(plain, c, crc_delta) ==
    [i \in 1..LOGICAL_BLOCK_SIZE |->
        IF i = 17 THEN XorByte(c[1], crc_delta)
        ELSE IF i \in 18..20 THEN c[i - 16]
        ELSE plain[i]]

SealBlock(plain, n, crc_delta) ==
    PutChecksum(plain, crc32(SubSeq(plain, 1, n)), crc_delta)

\* the block of h, as a disk tool would write it
HeaderBlock(h, tail, crc_delta) ==
    SealBlock(PlainBlock(h, tail), ChecksummedLen(h), crc_delta)

\* a 128-bit GUID on disk: 16 little-endian bytes, here g, g+1, ...
Guid(g) == [i \in 1..16 |-> (g + i) % 256]

\* the header of a well-formed disk of 5 blocks: MBR, primary header, primary
\* array, backup array, backup header
GoodPrimary ==
    [signature |-> REQUIRED_SIGNATURE,
     revision |-> THIS_REVISION,
     header_size |-> ToLe(MIN_HEADER_SIZE, 4),
     reserved |-> Zeros(4),
     my_lba |-> ToLe(1, 8),
     alternate_lba |-> ToLe(4, 8),
     first_usable_lba |-> ToLe(3, 8),
     last_usable_lba |-> ToLe(2, 8),
     disk_guid |-> Guid(16),
     partition_entry_lba |-> ToLe(2, 8),
     number_of_partition_entries |-> ToLe(1, 4),
     size_of_partition_entry |-> ToLe(128, 4),
     partition_entry_array_crc32 |-> Zeros(4)]

\* header blocks for GptHeader::parse: every combination of a good or bad
\* signature, revision, header size, checksum, reserved field and padding
BadSignature == <<\h45, \h46, \h49, \h20, \h50, \h41, \h52, \h74>>
BadRevision == W(\h00, \h02, \h00, \h00)
HeaderSizes == {91, 92, 96, 512, 513}
Tails == {<<>>, <<7>>, Zeros(8) \o <<7>>}

ParseInputs ==
    { HeaderBlock([GoodPrimary EXCEPT !.signature = sig, !.revision = rev,
                                      !.header_size = ToLe(hs, 4), !.reserved = res],
                  tail, delta) :
        sig \in {REQUIRED_SIGNATURE, BadSignature},
        rev \in {THIS_REVISION, BadRevision},
        hs \in HeaderSizes,
        res \in {Zeros(4), <<0, 0, 0, 1>>},
        tail \in Tails,
        delta \in {0, 1} }

----------------------------------------------------------------------------
(* Input images: what the handle of gpt_info can be opened on.  An image   *)
(* is five blocks: MBR, primary header, primary entry array, backup entry  *)
(* array, backup header.  A choice record selects, aspect by aspect, the   *)
(* well-formed content (0) or one of its deviations.                       *)

\* 2^55: the least u64 whose product with 512 overflows
TwoTo55 == <<0, 0, 0, 0, 0, 0, 128, 0>>
\* 2^64 - 1
MaxU64 == [i \in 1..8 |-> 255]

\* the protective MBR of a 5-block disk; `good` selects the signature 0xAA55
MbrBlock(good) ==
    Zeros(PARTITION_RECORD_OFFSET)
    \o <<0, 0, 2, 0, \hEE, \hFF, \h09, \h00, 1, 0, 0, 0, 4, 0, 0, 0>>
    \o Zeros(3 * PARTITION_RECORD_SIZE)
    \o (IF good THEN MBR_REQUIRED_SIGNATURE ELSE <<0, 0>>)

\* the entry shapes a primary header declares: partition_entry_lba,
\* number_of_partition_entries, size_of_partition_entry
Shapes ==
    << [lba |-> ToLe(2, 8), number |-> ToLe(1, 4), size |-> ToLe(128, 4)],
       [lba |-> ToLe(2, 8), number |-> ToLe(0, 4), size |-> ToLe(128, 4)],
       [lba |-> ToLe(2, 8), number |-> ToLe(1, 4), size |-> ToLe(0, 4)],
       [lba |-> ToLe(2, 8), number |-> ToLe(2, 4), size |-> ToLe(64, 4)],
       [lba |-> ToLe(2, 8), number |-> <<0, 0, 1, 0>>, size |-> <<0, 0, 1, 0>>],
       [lba |-> <<2, 0, 0, 0, 0, 0, 128, 0>>, number |-> ToLe(1, 4), size |-> ToLe(128, 4)],
       [lba |-> ToLe(2, 8), number |-> ToLe(2, 4), size |-> ToLe(128, 4)] >>

\* the first entry of the array: its starting and ending LBA
FirstEntries ==
    << [starting_lba |-> ToLe(34, 8), ending_lba |-> ToLe(2081, 8)],
       [starting_lba |-> ToLe(34, 8), ending_lba |-> MaxU64],
       [starting_lba |-> TwoTo55, ending_lba |-> ToLe(2081, 8)] >>

\* the 128 bytes of an entry named "EFI"
EntryBytes(e, g) ==
    Guid(g) \o Guid(g + 16) \o e.starting_lba \o e.ending_lba \o ToLe(1, 8)
    \o <<69, 0, 70, 0, 73, 0>> \o Zeros(66)

\* the block of the primary entry array: two entries, then zeros
ArrayArea(entry) ==
    EntryBytes(FirstEntries[entry + 1], 32)
    \o EntryBytes([starting_lba |-> ToLe(2082, 8), ending_lba |-> ToLe(4095, 8)], 64)
    \o Zeros(256)

\* the generator polynomial of CRC-32 as five message bytes: XORed into a
\* message anywhere, it leaves the CRC-32 of the message as it was
CrcKernel == <<\h41, \h06, \h71, \hDB, \h01>>

XorAt(block, off, pattern) ==
    [i \in 1..Len(block) |->
        IF i - off \in 1..Len(pattern) THEN XorByte(block[i], pattern[i - off])
        ELSE block[i]]

\* the block of the backup entry array: the primary one (0), with another
\* starting LBA in the first entry (1), with another starting LBA and the same
\* CRC-32 (2), with other bytes behind the NUL of the first name and the same
\* CRC-32 (3)
BackupArrayArea(area, barray) ==
    CASE barray = 0 -> area
      [] barray = 1 -> [area EXCEPT ![33] = (@ + 1) % 256]
      [] barray = 2 -> XorAt(area, 32, CrcKernel)
      [] barray = 3 -> XorAt(area, 123, CrcKernel)

\* the bytes of `area` that a header of this shape makes gpt_info read
ArrayBytes(area, number, size) ==
    LET n == MulU32(size, number).v
    IN  IF IsSmall(n) /\ LeVal(n) <= Len(area) THEN SubSeq(area, 1, LeVal(n)) ELSE <<>>

\* the primary header of choice c, given the shape it declares and the
\* CRC-32 of the array bytes of that shape
PrimaryHeaderWith(c, shape, crc) ==
    [GoodPrimary EXCEPT
        !.signature = IF c.prim = 1 THEN BadSignature ELSE @,
        !.my_lba = IF c.prim = 2 THEN ToLe(2, 8) ELSE @,
        !.alternate_lba = CASE c.alt = 0 -> @
                            [] c.alt = 1 -> ToLe(9, 8)
                            [] c.alt = 2 -> TwoTo55,
        !.partition_entry_lba = shape.lba,
        !.number_of_partition_entries = shape.number,
        !.size_of_partition_entry = shape.size,
        !.partition_entry_array_crc32 =
            IF c.parray = 1 THEN <<XorByte(crc[1], 1), crc[2], crc[3], crc[4]>>
            ELSE crc]

ShapeCrc(area, shape) == crc32(ArrayBytes(area, shape.number, shape.size))

PrimaryHeaderOf(c) ==
    PrimaryHeaderWith(c, Shapes[c.shape + 1],
                      ShapeCrc(ArrayArea(c.entry), Shapes[c.shape + 1]))

\* the backup header to the primary p: the mirror of p (0); the same disk
\* GUID and unrelated LBAs (1); nothing in common (2); the mirror with a wrong
\* header checksum (3); mirrored LBAs and another disk GUID (4).  Its array
\* is at block 3 and has `number` entries.
BackupHeaderWith(c, p, number) ==
    [p EXCEPT
        !.signature = REQUIRED_SIGNATURE,
        !.my_lba = IF c.backup \in {1, 2} THEN ToLe(7, 8) ELSE p.alternate_lba,
        !.alternate_lba = IF c.backup \in {1, 2} THEN ToLe(7, 8) ELSE p.my_lba,
        !.disk_guid = IF c.backup \in {2, 4} THEN Guid(99) ELSE @,
        !.partition_entry_lba = ToLe(3, 8),
        !.number_of_partition_entries = number,
        !.partition_entry_array_crc32 =
            crc32(ArrayBytes(BackupArrayArea(ArrayArea(c.entry), c.barray),
                             number, p.size_of_partition_entry))]

\* the backup header declares the primary's number of entries or (bshape 1)
\* one entry more
BackupHeaderFrom(c, p) ==
    BackupHeaderWith(c, p,
        IF c.bshape = 1 THEN AddWord(p.number_of_partition_entries, ToLe(1, 4)).v
        ELSE p.number_of_partition_entries)

BackupHeaderOf(c) == BackupHeaderFrom(c, PrimaryHeaderOf(c))

ImageOf(c) ==
    MbrBlock(c.mbr = 0)
    \o HeaderBlock(PrimaryHeaderOf(c), <<>>, 0)
    \o ArrayArea(c.entry)
    \o BackupArrayArea(ArrayArea(c.entry), c.barray)
    \o HeaderBlock(BackupHeaderOf(c), <<>>, IF c.backup = 3 THEN 1 ELSE 0)

\* how many aspects of an image deviate at once
MaxDeviations == 1

Choices ==
    { c \in [mbr : 0..1, prim : 0..2, alt : 0..2, backup : 0..4, shape : 0..6,
             parray : 0..1, entry : 0..2, barray : 0..3, bshape : 0..1] :
        Cardinality({f \in DOMAIN c : c[f] # 0}) <= MaxDeviations }

Images == { ImageOf(c) : c \in Choices }

GoodImage ==
    ImageOf([mbr |-> 0, prim |-> 0, alt |-> 0, backup |-> 0, shape |-> 0,
             parray |-> 0, entry |-> 0, barray |-> 0, bshape |-> 0])

----------------------------------------------------------------------------
(* State                                                                   *)

VARIABLES
    \* a call of GptHeader::parse
    raw,                    \* the 512-byte block handed to parse
    flip,                   \* <<offset, bit>> of the bit flipped in raw, or <<>>
    parsed,                 \* the Result of parse, Pending before the call
    \* a call of gpt_info, then of GptInfo::first_partition_byte_range
    disk,                   \* the bytes of the image behind the handle
    io_fail_at,             \* the handle_read (1st, 2nd, ...) that the device fails; 0: none
    overflow_checks,        \* whether the build panics on integer overflow
    pc,                     \* the statement gpt_info is at
    buf,                    \* the scratch buffer
    reads,                  \* the seeks and reads issued on the handle: <<offset, size>>
    mbr, header, backup_header, partition_entry_array,  \* the locals of gpt_info
    result,                 \* what gpt_info returned (or a panic), Pending before
    first_partition,        \* the Result of first_partition_byte_range, Pending before
    \* a call of compare_header_and_backup_header
    cmp_args,               \* <<header, backup>>
    cmp_result,
    \* a call of size_in_bytes_to_num_logical_blocks
    size,
    num_blocks,
    \* the creation of a disk for a partition: disk_size_in_lba, then
    \* GptHeader::new_primary and write_header
    partition_size_bytes,   \* the argument, a u64
    disk_size,              \* what disk_size_in_lba returned, Pending before
    new_header,             \* what GptHeader::new_primary returned, Pending before
    write_fails,            \* whether the handle refuses the write
    written,                \* the bytes the handle received
    write_result,           \* what write_header returned (or a panic), Pending before
    \* an Mbr encoded, parsed and encoded again
    mbr_value,              \* the Mbr
    encoded,                \* Mbr::encode of it, Pending before
    reparsed,               \* Mbr::parse of encoded, Pending before
    reencoded,              \* Mbr::encode of the Mbr parsed, Pending before
    \* a call of crc32
    data,                   \* the bytes
    checksum                \* what crc32 returned, Pending before

parse_vars == <<raw, flip, parsed>>
info_vars == <<disk, io_fail_at, overflow_checks, pc, buf, reads, mbr, header,
               backup_header, partition_entry_array, result, first_partition>>
cmp_vars == <<cmp_args, cmp_result>>
layout_vars == <<size, num_blocks>>
create_vars == <<partition_size_bytes, disk_size, new_header, write_fails, written,
                 write_result>>
codec_vars == <<mbr_value, encoded, reparsed, reencoded>>
crc_vars == <<data, checksum>>
vars == <<parse_vars, info_vars, cmp_vars, layout_vars, create_vars, codec_vars, crc_vars>>

\* a result not there yet, a local not assigned yet
Pending == [pending |-> TRUE]
IsPending(r) == DOMAIN r = {"pending"}

\* the variables of the calls a specification does not make
IdleParse == raw = <<>> /\ flip = <<>> /\ parsed = Pending
IdleInfo ==
    /\ disk = <<>> /\ io_fail_at = 0 /\ overflow_checks = FALSE /\ pc = "idle"
    /\ buf = <<>> /\ reads = <<>>
    /\ mbr = Pending /\ header = Pending /\ backup_header = Pending
    /\ partition_entry_array = Pending
    /\ result = Pending /\ first_partition = Pending
IdleCmp == cmp_args = <<>> /\ cmp_result = Pending
IdleLayout == size = <<>> /\ num_blocks = <<>>
IdleCreate ==
    /\ partition_size_bytes = <<>> /\ disk_size = Pending /\ new_header = Pending
    /\ write_fails = FALSE /\ written = <<>> /\ write_result = Pending
IdleCodec ==
    /\ mbr_value = Pending /\ encoded = Pending /\ reparsed = Pending
    /\ reencoded = Pending
IdleCrc == data = <<>> /\ checksum = Pending
\* the variables of the calls that none of the first four specifications makes
IdleRest == IdleCreate /\ IdleCodec /\ IdleCrc
rest_vars == <<create_vars, codec_vars, crc_vars>>

----------------------------------------------------------------------------
(* GptHeader::parse on a block, possibly after one bit of it was flipped   *)

\* the highest offset (exclusive) at which a bit is flipped
MaxFlipOffset == 96

FlipBitAt(block, off, bit) ==
    [block EXCEPT ![off + 1] = IF (@ \div 2^bit) % 2 = 1 THEN @ - 2^bit ELSE @ + 2^bit]

InitParse ==
    /\ raw \in ParseInputs
    /\ flip = <<>>
    /\ parsed = Pending
    /\ IdleInfo /\ IdleCmp /\ IdleLayout /\ IdleRest

\* the environment damages one bit of a block that parse accepts, within the
\* first header_size bytes, and does not recompute the checksum
FlipBit ==
    /\ IsPending(parsed)
    /\ flip = <<>>
    /\ GptHeader_parse(raw).ok
    /\ \E off \in 0..(MaxFlipOffset - 1), bit \in 0..7 :
        /\ off < LeVal(Slice(raw, 12, 16))
        /\ raw' = FlipBitAt(raw, off, bit)
        /\ flip' = <<off, bit>>
    /\ UNCHANGED <<parsed, info_vars, cmp_vars, layout_vars, rest_vars>>

Parse ==
    /\ IsPending(parsed)
    /\ parsed' = GptHeader_parse(raw)
    /\ UNCHANGED <<raw, flip, info_vars, cmp_vars, layout_vars, rest_vars>>

NextParse == FlipBit \/ Parse

SpecParse == InitParse /\ [][NextParse]_vars

----------------------------------------------------------------------------
(* gpt_info, statement by statement                                        *)

\* the outcome of handle_read(handle, offset, size, buf) as the `count`-th
\* read of the call: the buffer read, or Error::Io.  The handle is a file of
\* the bytes `disk`: a seek succeeds, read_exact fails when the file ends
\* before `size` bytes; the device fails the read number io_fail_at.
\* offset is a u64, size a usize (64 bits).
handle_read(offset, sz, count) ==
    IF count = io_fail_at THEN Err(Error("Io"))
    ELSE IF sz = Zeros(8) THEN Ok(<<>>)
    ELSE IF IsSmall(offset) /\ IsSmall(sz) /\ LeVal(offset) + LeVal(sz) <= Len(disk)
      THEN Ok(SubSeq(disk, LeVal(offset) + 1, LeVal(offset) + LeVal(sz)))
    ELSE Err(Error("Io"))

\* `handle_read(...)?`: the read is issued; its error ends gpt_info
ReadStep(offset, sz, next) ==
    LET r == handle_read(offset, sz, Len(reads) + 1) IN
    /\ reads' = Append(reads, <<offset, sz>>)
    /\ IF r.ok
         THEN buf' = r.v /\ pc' = next /\ result' = result
         ELSE buf' = <<>> /\ pc' = "done" /\ result' = r

\* a `return Err(..)`, a `?` on an Err, or a panic: gpt_info ends
Return(r) == pc' = "done" /\ result' = r

\* the maximum number of the read the device fails
MaxIoFail == 5

InitInfo ==
    /\ \/ disk \in Images /\ io_fail_at = 0
       \/ disk = GoodImage /\ io_fail_at \in 1..MaxIoFail
    /\ overflow_checks \in BOOLEAN
    /\ pc = "read_mbr"
    /\ buf = Zeros(LOGICAL_BLOCK_SIZE)
    /\ reads = <<>>
    /\ mbr = Pending /\ header = Pending /\ backup_header = Pending
    /\ partition_entry_array = Pending
    /\ result = Pending /\ first_partition = Pending
    /\ IdleParse /\ IdleCmp /\ IdleLayout /\ IdleRest

ReadMbr ==
    /\ pc = "read_mbr"
    /\ ReadStep(ToLe(0, 8), ToLe(LOGICAL_BLOCK_SIZE, 8), "parse_mbr")
    /\ UNCHANGED <<disk, io_fail_at, overflow_checks, mbr, header, backup_header,
                   partition_entry_array, first_partition>>
    /\ UNCHANGED <<parse_vars, cmp_vars, layout_vars, rest_vars>>

ParseMbr ==
    /\ pc = "parse_mbr"
    /\ LET r == Mbr_parse(buf) IN
         IF r.ok THEN mbr' = r.v /\ pc' = "read_header" /\ result' = result
         ELSE mbr' = mbr /\ Return(r)
    /\ UNCHANGED <<disk, io_fail_at, overflow_checks, buf, reads, header, backup_header,
                   partition_entry_array, first_partition>>
    /\ UNCHANGED <<parse_vars, cmp_vars, layout_vars, rest_vars>>

ReadHeader ==
    /\ pc = "read_header"
    /\ ReadStep(ToLe(LOGICAL_BLOCK_SIZE, 8), ToLe(LOGICAL_BLOCK_SIZE, 8), "parse_header")
    /\ UNCHANGED <<disk, io_fail_at, overflow_checks, mbr, header, backup_header,
                   partition_entry_array, first_partition>>
    /\ UNCHANGED <<parse_vars, cmp_vars, layout_vars, rest_vars>>

\* a variant of ParseHeader that does not look at my_lba
ParseHeaderAnyMyLba ==
    /\ pc = "parse_header"
    /\ LET r == GptHeader_parse(buf) IN
         IF ~r.ok THEN header' = header /\ Return(r)
         ELSE header' = r.v /\ pc' = "read_backup_header" /\ result' = result
    /\ UNCHANGED <<disk, io_fail_at, overflow_checks, buf, reads, mbr, backup_header,
                   partition_entry_array, first_partition>>
    /\ UNCHANGED <<parse_vars, cmp_vars, layout_vars, rest_vars>>

\* let header = GptHeader::parse(&buf)?; if header.my_lba != 1 { return Err(..) }
ParseHeader ==
    /\ pc = "parse_header"
    /\ LET r == GptHeader_parse(buf) IN
         IF ~r.ok THEN header' = header /\ Return(r)
         ELSE IF r.v.my_lba # ToLe(1, 8)
           THEN header' = r.v /\ Return(Err(ErrorValue("UnexpectedMyLba", r.v.my_lba)))
         ELSE header' = r.v /\ pc' = "read_backup_header" /\ result' = result
    /\ UNCHANGED <<disk, io_fail_at, overflow_checks, buf, reads, mbr, backup_header,
                   partition_entry_array, first_partition>>
    /\ UNCHANGED <<parse_vars, cmp_vars, layout_vars, rest_vars>>

\* handle_read(handle, header.alternate_lba * LOGICAL_BLOCK_SIZE as u64, ..)?
ReadBackupHeader ==
    /\ pc = "read_backup_header"
    /\ LET offset == MulBy512(header.alternate_lba) IN
         IF ~offset.ok /\ overflow_checks
           THEN /\ Return(Panic("attempt to multiply with overflow"))
                /\ UNCHANGED <<buf, reads>>
           ELSE ReadStep(offset.v, ToLe(LOGICAL_BLOCK_SIZE, 8), "parse_backup_header")
    /\ UNCHANGED <<disk, io_fail_at, overflow_checks, mbr, header, backup_header,
                   partition_entry_array, first_partition>>
    /\ UNCHANGED <<parse_vars, cmp_vars, layout_vars, rest_vars>>

\* let backup_header = GptHeader::parse(&buf)?;
\* GptHeader::compare_header_and_backup_header(&header, &backup_header)?;
ParseBackupHeader ==
    /\ pc = "parse_backup_header"
    /\ LET r == GptHeader_parse(buf) IN
         IF ~r.ok THEN backup_header' = backup_header /\ Return(r)
         ELSE LET m == compare_header_and_backup_header(header, r.v) IN
              IF ~m.ok THEN backup_header' = r.v /\ Return(m)
              ELSE backup_header' = r.v /\ pc' = "read_array" /\ result' = result
    /\ UNCHANGED <<disk, io_fail_at, overflow_checks, buf, reads, mbr, header,
                   partition_entry_array, first_partition>>
    /\ UNCHANGED <<parse_vars, cmp_vars, layout_vars, rest_vars>>

\* the read of the entry array of header h: h.partition_entry_array_byte_range(),
\* then handle_read(handle, range.start, (range.end - range.start) as usize, ..)?
ReadArrayOf(h, next) ==
    LET range == partition_entry_array_byte_range(h) IN
    IF ~range.ok /\ overflow_checks
      THEN /\ Return(Panic("attempt to multiply or add with overflow"))
           /\ UNCHANGED <<buf, reads>>
      ELSE ReadStep(range.start, SubWord(range.end, range.start).v, next)

ReadPartitionArray ==
    /\ pc = "read_array"
    /\ ReadArrayOf(header, "parse_array")
    /\ UNCHANGED <<disk, io_fail_at, overflow_checks, mbr, header, backup_header,
                   partition_entry_array, first_partition>>
    /\ UNCHANGED <<parse_vars, cmp_vars, layout_vars, rest_vars>>

\* let partition_entry_array = PartitionEntry::parse_array(&buf, &header)?.collect();
ParsePartitionArray ==
    /\ pc = "parse_array"
    /\ LET r == PartitionEntry_parse_array(buf, header) IN
         IF r.ok
           THEN partition_entry_array' = r.v /\ pc' = "read_backup_array" /\ result' = result
           ELSE partition_entry_array' = partition_entry_array /\ Return(r)
    /\ UNCHANGED <<disk, io_fail_at, overflow_checks, buf, reads, mbr, header,
                   backup_header, first_partition>>
    /\ UNCHANGED <<parse_vars, cmp_vars, layout_vars, rest_vars>>

\* a variant of ReadBackupPartitionArray that takes the start of the range from
\* the backup header and its length from the primary header
ReadBackupArrayOfPrimaryLength ==
    /\ pc = "read_backup_array"
    /\ ReadArrayOf([header EXCEPT !.partition_entry_lba = backup_header.partition_entry_lba],
                   "parse_backup_array")
    /\ UNCHANGED <<disk, io_fail_at, overflow_checks, mbr, header, backup_header,
                   partition_entry_array, first_partition>>
    /\ UNCHANGED <<parse_vars, cmp_vars, layout_vars, rest_vars>>

\* let range = backup_header.partition_entry_array_byte_range();
\* handle_read(handle, range.start, (range.end - range.start) as usize, &mut buf)?
ReadBackupPartitionArray ==
    /\ pc = "read_backup_array"
    /\ ReadArrayOf(backup_header, "parse_backup_array")
    /\ UNCHANGED <<disk, io_fail_at, overflow_checks, mbr, header, backup_header,
                   partition_entry_array, first_partition>>
    /\ UNCHANGED <<parse_vars, cmp_vars, layout_vars, rest_vars>>

\* let backup_partition_entry_array =
\*     PartitionEntry::parse_array(&buf, &header)?.collect();
\* if backup_partition_entry_array != partition_entry_array { return Err(..) }
\* Ok(GptInfo { mbr, header, backup_header, partition_entry_array })
ParseBackupPartitionArray ==
    /\ pc = "parse_backup_array"
    /\ LET r == PartitionEntry_parse_array(buf, header) IN
         IF ~r.ok THEN Return(r)
         ELSE IF r.v # partition_entry_array
           THEN Return(Err(Error("BackupPartitionArrayDoesNotMatch")))
         ELSE Return(Ok([mbr |-> mbr, header |-> header,
                         backup_header |-> backup_header,
                         partition_entry_array |-> partition_entry_array]))
    /\ UNCHANGED <<disk, io_fail_at, overflow_checks, buf, reads, mbr, header,
                   backup_header, partition_entry_array, first_partition>>
    /\ UNCHANGED <<parse_vars, cmp_vars, layout_vars, rest_vars>>

\* GptInfo::first_partition_byte_range on the GptInfo that gpt_info returned
first_partition_byte_range(self) ==
    IF self.partition_entry_array = <<>> THEN Err(Error("NoPartitions"))
    ELSE LET range == partition_byte_range(self.partition_entry_array[1]) IN
         IF ~range.ok /\ overflow_checks
           THEN Panic("attempt to add or multiply with overflow")
           ELSE Ok(<<range.start, range.end>>)

FirstPartitionByteRange ==
    /\ pc = "done" /\ result.ok
    /\ IsPending(first_partition)
    /\ first_partition' = first_partition_byte_range(result.v)
    /\ UNCHANGED <<disk, io_fail_at, overflow_checks, pc, buf, reads, mbr, header,
                   backup_header, partition_entry_array, result>>
    /\ UNCHANGED <<parse_vars, cmp_vars, layout_vars, rest_vars>>

Next ==
    \/ ReadMbr \/ ParseMbr
    \/ ReadHeader \/ ParseHeader
    \/ ReadBackupHeader \/ ParseBackupHeader
    \/ ReadPartitionArray \/ ParsePartitionArray
    \/ ReadBackupPartitionArray \/ ParseBackupPartitionArray
    \/ FirstPartitionByteRange

Spec == InitInfo /\ [][Next]_vars

----------------------------------------------------------------------------
(* compare_header_and_backup_header on two headers, in both directions     *)

\* headers that differ at most in the three fields the comparison reads
MirrorLbas == {1, 4, 7}
MirrorGuids == {16, 99}
MirrorHeaders ==
    { [GoodPrimary EXCEPT !.my_lba = ToLe(my, 8),
                          !.alternate_lba = ToLe(alt, 8),
                          !.disk_guid = guid_to_uuid(Guid(g))] :
        my \in MirrorLbas, alt \in MirrorLbas, g \in MirrorGuids }

\* cmp_args is <<primary, backup>>; cmp_result holds the result of the call
\* (primary, backup) and that of the call (backup, primary)
InitMirror ==
    /\ cmp_args \in MirrorHeaders \X MirrorHeaders
    /\ cmp_result = <<Pending, Pending>>
    /\ IdleParse /\ IdleInfo /\ IdleLayout /\ IdleRest

Compare ==
    /\ IsPending(cmp_result[1])
    /\ cmp_result' = [cmp_result EXCEPT
                        ![1] = compare_header_and_backup_header(cmp_args[1], cmp_args[2])]
    /\ UNCHANGED <<cmp_args, parse_vars, info_vars, layout_vars, rest_vars>>

CompareReversed ==
    /\ IsPending(cmp_result[2])
    /\ cmp_result' = [cmp_result EXCEPT
                        ![2] = compare_header_and_backup_header(cmp_args[2], cmp_args[1])]
    /\ UNCHANGED <<cmp_args, parse_vars, info_vars, layout_vars, rest_vars>>

NextMirror == Compare \/ CompareReversed

SpecMirror == InitMirror /\ [][NextMirror]_vars

----------------------------------------------------------------------------
(* size_in_bytes_to_num_logical_blocks on a size                           *)

\* the sizes up to this one are all tried
MaxLayoutSize == 1030

\* 2^64 - 1, 2^64 - 512, 2^63, 2^32 and their neighbours
LargeSizes ==
    { [i \in 1..8 |-> 255],
      <<0, 254, 255, 255, 255, 255, 255, 255>>,
      <<1, 254, 255, 255, 255, 255, 255, 255>>,
      <<0, 0, 0, 0, 0, 0, 0, 128>>,
      <<0, 0, 0, 0, 1, 0, 0, 0>>,
      <<1, 0, 0, 0, 1, 0, 0, 0>> }

LayoutSizes == { ToLe(n, 8) : n \in 0..MaxLayoutSize } \cup LargeSizes

InitLayout ==
    /\ size \in LayoutSizes
    /\ num_blocks = <<>>
    /\ IdleParse /\ IdleInfo /\ IdleCmp /\ IdleRest

SizeToBlocks ==
    /\ num_blocks = <<>>
    /\ num_blocks' = size_in_bytes_to_num_logical_blocks(size)
    /\ UNCHANGED <<size, parse_vars, info_vars, cmp_vars, rest_vars>>

NextLayout == SizeToBlocks

SpecLayout == InitLayout /\ [][NextLayout]_vars

----------------------------------------------------------------------------
(* Claims about GptHeader::parse (SpecParse)                               *)

\* the checks of GptHeader::parse, each read off the block by itself
SignatureGood(b) == \A i \in 1..8 : b[i] = REQUIRED_SIGNATURE[i]
RevisionGood(b) == b[9] = 0 /\ b[10] = 0 /\ b[11] = 1 /\ b[12] = 0
HeaderSizeOf(b) == b[13] + 256 * b[14]
HeaderSizeGood(b) == b[15] = 0 /\ b[16] = 0 /\ HeaderSizeOf(b) \in 92..512
ChecksumOf(b) ==
    crc32([i \in 1..HeaderSizeOf(b) |-> IF i \in 17..20 THEN 0 ELSE b[i]])
ChecksumGood(b) == ChecksumOf(b) = <<b[17], b[18], b[19], b[20]>>
ReservedGood(b) == \A i \in 21..24 : b[i] = 0
NonZeroIn(b, from, to) == \E i \in (from + 1)..to : b[i] # 0

FieldsDecoded(h, b) ==
    /\ h.revision = SubSeq(b, 9, 12)
    /\ h.header_size = SubSeq(b, 13, 16)
    /\ h.header_crc32 = SubSeq(b, 17, 20)
    /\ h.my_lba = SubSeq(b, 25, 32)
    /\ h.alternate_lba = SubSeq(b, 33, 40)
    /\ h.first_usable_lba = SubSeq(b, 41, 48)
    /\ h.last_usable_lba = SubSeq(b, 49, 56)
    /\ h.disk_guid = <<b[60], b[59], b[58], b[57], b[62], b[61], b[64], b[63]>>
                     \o SubSeq(b, 65, 72)
    /\ h.partition_entry_lba = SubSeq(b, 73, 80)
    /\ h.number_of_partition_entries = SubSeq(b, 81, 84)
    /\ h.size_of_partition_entry = SubSeq(b, 85, 88)
    /\ h.partition_entry_array_crc32 = SubSeq(b, 89, 92)

KindOf(r) == IF IsErr(r) THEN r.err.kind ELSE IF r.ok THEN "Ok" ELSE "Panic"

\* C2: GptHeader::parse reports the earliest violated check, in the order
\* signature, revision, header size, header CRC-32 (with the computed and the
\* stored value), reserved bytes [20,24), zero padding; a block that violates
\* none is accepted, its fields decoded from the fixed offsets.
C2_FirstFailingCheckWins ==
    ~IsPending(parsed) =>
        IF ~SignatureGood(raw)
          THEN parsed = Err(ErrorValue("InvalidSignature", SubSeq(raw, 1, 8)))
        ELSE IF ~RevisionGood(raw)
          THEN parsed = Err(ErrorValue("IncorrectRevision", SubSeq(raw, 9, 12)))
        ELSE IF ~HeaderSizeGood(raw)
          THEN parsed = Err(ErrorValue("InvalidHeaderSize", SubSeq(raw, 13, 16)))
        ELSE IF ~ChecksumGood(raw)
          THEN parsed = Err(ErrorChecksum("HeaderChecksumMismatch",
                                          ChecksumOf(raw), SubSeq(raw, 17, 20)))
        ELSE IF ~ReservedGood(raw)
          THEN parsed = Err(Error("UnexpectedNonZeroValue"))
        ELSE /\ NonZeroIn(raw, HeaderSizeOf(raw), 512)
                    => parsed = Err(Error("UnexpectedNonZeroValue"))
             /\ ~NonZeroIn(raw, 92, 512)
                    => parsed.ok /\ FieldsDecoded(parsed.v, raw)

\* a block that violates three checks at once, the earliest of them reported
C2_Witness ==
    /\ ~IsPending(parsed)
    /\ SignatureGood(raw) /\ ~RevisionGood(raw) /\ ~HeaderSizeGood(raw)
    /\ ~ReservedGood(raw)
    /\ KindOf(parsed) = "IncorrectRevision"

\* the block before the bit was flipped
Unflipped == FlipBitAt(raw, flip[1], flip[2])

FlippedAndParsed ==
    /\ ~IsPending(parsed) /\ flip # <<>>
    /\ GptHeader_parse(Unflipped).ok
    /\ flip[1] < HeaderSizeOf(Unflipped)

\* C3 as stated: a flip of any single bit in the first header_size bytes of an
\* accepted block makes parse fail with HeaderChecksumMismatch.
C3_AnyBitGivesChecksumMismatch ==
    FlippedAndParsed => KindOf(parsed) = "HeaderChecksumMismatch"

\* C3 amended: the flip makes parse fail with HeaderChecksumMismatch when the
\* bit is at an offset in [16, header_size); with InvalidSignature when it is
\* in [0,8); with IncorrectRevision when it is in [8,12); with
\* InvalidHeaderSize when it is in [12,16) and takes header_size out of 92..512.
C3_FlipFailsByOffset ==
    FlippedAndParsed =>
        /\ flip[1] \in 0..7 => KindOf(parsed) = "InvalidSignature"
        /\ flip[1] \in 8..11 => KindOf(parsed) = "IncorrectRevision"
        /\ flip[1] \in 12..15 /\ ~HeaderSizeGood(raw)
                => KindOf(parsed) = "InvalidHeaderSize"
        /\ flip[1] >= 16 => KindOf(parsed) = "HeaderChecksumMismatch"

\* a bit of the last byte of a 96-byte header flipped, and the mismatch found
C3_Witness ==
    /\ FlippedAndParsed
    /\ HeaderSizeOf(raw) = 96 /\ flip[1] = 95
    /\ KindOf(parsed) = "HeaderChecksumMismatch"

PassesFirstFive(b) ==
    /\ SignatureGood(b) /\ RevisionGood(b) /\ HeaderSizeGood(b)
    /\ ChecksumGood(b) /\ ReservedGood(b)

\* C4: past the first five checks, parse fails the padding check exactly when
\* a byte at an offset in [header_size, 512) is non-zero; the bytes at offsets
\* in [92, header_size) are not part of the padding.
C4_PaddingStartsAtHeaderSize ==
    (~IsPending(parsed) /\ PassesFirstFive(raw)) =>
        (parsed = Err(Error("UnexpectedNonZeroValue"))
            <=> NonZeroIn(raw, HeaderSizeOf(raw), 512))

----------------------------------------------------------------------------
(* Claims about gpt_info (Spec)                                            *)

\* what the i-th read that gpt_info issued returned
ReadOf(i) == handle_read(reads[i][1], reads[i][2], i)

BlockLen == ToLe(LOGICAL_BLOCK_SIZE, 8)

\* the steps of gpt_info, each the value it yields or the error it ends with:
\* LB 0 and the MBR signature
MbrStep(rd) == IF ~rd.ok THEN rd ELSE Mbr_parse(rd.v)
\* LB 1, the primary header parse, my_lba == 1
MyLbaStep(p) ==
    IF ~p.ok THEN p
    ELSE IF p.v.my_lba # ToLe(1, 8) THEN Err(ErrorValue("UnexpectedMyLba", p.v.my_lba))
    ELSE p
HeaderStep(rd) == IF ~rd.ok THEN rd ELSE MyLbaStep(GptHeader_parse(rd.v))
\* the block at alternate_lba, the backup header parse, the mirror check
MirrorStep(h, b, m) == IF ~b.ok THEN b ELSE IF ~m.ok THEN m ELSE b
MirrorOf(h, b) ==
    MirrorStep(h, b, IF b.ok THEN compare_header_and_backup_header(h, b.v) ELSE b)
BackupStep(h, rd) == IF ~rd.ok THEN rd ELSE MirrorOf(h, GptHeader_parse(rd.v))
\* the primary entry array and its checksum
ArrayStep(h, rd) == IF ~rd.ok THEN rd ELSE PartitionEntry_parse_array(rd.v, h)
\* the backup entry array, its checksum, the equality of the two arrays
EqualStep(pa, ba) ==
    IF ~ba.ok THEN ba
    ELSE IF ba.v # pa THEN Err(Error("BackupPartitionArrayDoesNotMatch"))
    ELSE ba
BackupArrayStep(h, pa, rd) ==
    IF ~rd.ok THEN rd ELSE EqualStep(pa, PartitionEntry_parse_array(rd.v, h))

\* the value or error of step k (1..5), given that its read was issued
StepOf(k) ==
    CASE k = 1 -> MbrStep(ReadOf(1))
      [] k = 2 -> HeaderStep(ReadOf(2))
      [] k = 3 -> BackupStep(header, ReadOf(3))
      [] k = 4 -> ArrayStep(header, ReadOf(4))
      [] k = 5 -> BackupArrayStep(header, partition_entry_array, ReadOf(5))

RangeRead(range) == <<range.start, SubWord(range.end, range.start).v>>

\* a read is issued only after every step before it succeeded, at the place
\* its step names, and the locals hold what the steps yielded
ReadsInOrder ==
    /\ Len(reads) <= 5
    /\ Len(reads) >= 1 => reads[1] = <<Zeros(8), BlockLen>>
    /\ Len(reads) >= 2 =>
        /\ StepOf(1).ok /\ mbr = StepOf(1).v
        /\ reads[2] = <<BlockLen, BlockLen>>
    /\ Len(reads) >= 3 =>
        /\ StepOf(2).ok /\ header = StepOf(2).v
        /\ reads[3] = <<MulBy512(header.alternate_lba).v, BlockLen>>
    /\ Len(reads) >= 4 =>
        /\ StepOf(3).ok /\ backup_header = StepOf(3).v
        /\ reads[4] = RangeRead(partition_entry_array_byte_range(header))
    /\ Len(reads) >= 5 =>
        /\ StepOf(4).ok /\ partition_entry_array = StepOf(4).v
        /\ reads[5][1] = MulBy512(backup_header.partition_entry_lba).v

\* what gpt_info returned is the error of the step it was at; it returned a
\* GptInfo when the fifth step succeeded
FirstFailureReturned ==
    (pc = "done" /\ ~IsPanic(result)) =>
        /\ Len(reads) >= 1
        /\ ~StepOf(Len(reads)).ok => result = StepOf(Len(reads))
        /\ StepOf(Len(reads)).ok =>
            /\ Len(reads) = 5
            /\ result = Ok([mbr |-> mbr, header |-> header,
                            backup_header |-> backup_header,
                            partition_entry_array |-> partition_entry_array])
        /\ result.ok => \A k \in 1..5 : StepOf(k).ok

\* C1: gpt_info reads and checks in one fixed order (LB 0 and the MBR
\* signature; LB 1, the primary header, my_lba == 1; the block at alternate_lba,
\* the backup header, the mirror check; the primary array and its checksum;
\* the backup array, its checksum, the equality of the arrays); whenever it
\* returns, it returns the error of the first step that failed, it has issued
\* no read past that step and issues none afterwards, and it returns a GptInfo
\* only when every step succeeded.  (A call that panics returns nothing.)
C1_FixedOrderFirstFailure ==
    /\ [](ReadsInOrder /\ FirstFailureReturned)
    /\ [][pc = "done" => reads' = reads]_vars

\* the mirror check fails: three reads were issued, and no more
C1_Witness ==
    /\ pc = "done" /\ Len(reads) = 3
    /\ result = Err(Error("HeaderDoesNotMatchBackup"))
    /\ StepOf(1).ok /\ StepOf(2).ok

\* C5 as stated: the backup array is read from backup.partition_entry_lba*512,
\* for primary.size_of_partition_entry * primary.number_of_partition_entries
\* bytes.
C5_LengthFromPrimary ==
    Len(reads) >= 5 =>
        reads[5] = <<MulBy512(backup_header.partition_entry_lba).v,
                     U32AsU64(MulU32(header.size_of_partition_entry,
                                     header.number_of_partition_entries).v)>>

\* C5 amended: the backup array is read from backup.partition_entry_lba*512,
\* for backup.size_of_partition_entry * backup.number_of_partition_entries
\* bytes (the range of the backup header itself); the primary header gives
\* the checksum and the chunk size the bytes read are decoded with.
C5_RangeFromBackup ==
    /\ Len(reads) >= 5 =>
        reads[5] = <<MulBy512(backup_header.partition_entry_lba).v,
                     U32AsU64(MulU32(backup_header.size_of_partition_entry,
                                     backup_header.number_of_partition_entries).v)>>
    /\ (pc = "done" /\ Len(reads) = 5 /\ ReadOf(5).ok /\ ~IsPanic(result) /\ ~result.ok) =>
        result \in { PartitionEntry_parse_array(ReadOf(5).v, header),
                     Err(Error("BackupPartitionArrayDoesNotMatch")) }

\* a backup header that declares two entries where the primary declares one:
\* 256 bytes are read
C5_Witness ==
    /\ Len(reads) = 5
    /\ header.number_of_partition_entries = ToLe(1, 4)
    /\ backup_header.number_of_partition_entries = ToLe(2, 4)
    /\ reads[5] = <<ToLe(3 * LOGICAL_BLOCK_SIZE, 8), ToLe(256, 8)>>

\* the entries that the bytes of the backup array decode to, by the shape the
\* backup header declares
DecodedBackup(bytes) ==
    IF backup_header.size_of_partition_entry = Zeros(4) THEN Panic("chunk size must be non-zero")
    ELSE ParseChunks(Chunks(bytes, ChunkSize(backup_header.size_of_partition_entry, Len(bytes))))

BackupDiffers(decoded) == decoded.ok /\ decoded.v # partition_entry_array
BackupEqual(decoded) == decoded.ok /\ decoded.v = partition_entry_array

\* C6: with the MBR, both headers, the mirror check and the primary array
\* valid, gpt_info fails with BackupPartitionArrayDoesNotMatch when the backup
\* array decodes to another sequence of entries than the primary array, and
\* never with that error when the two decode to the same sequence.
C6_DifferingBackupReported ==
    (pc = "done" /\ Len(reads) = 5 /\ ReadOf(5).ok) =>
        /\ BackupDiffers(DecodedBackup(ReadOf(5).v))
                => result = Err(Error("BackupPartitionArrayDoesNotMatch"))
        /\ BackupEqual(DecodedBackup(ReadOf(5).v))
                => result # Err(Error("BackupPartitionArrayDoesNotMatch"))

\* C8: in every GptInfo that gpt_info returns the two headers mirror each
\* other: backup_header.my_lba = header.alternate_lba, backup_header.alternate_lba
\* = header.my_lba = 1, and the disk GUIDs are equal.
C8_ReturnedHeadersMirror ==
    (pc = "done" /\ result.ok) =>
        /\ result.v.backup_header.my_lba = result.v.header.alternate_lba
        /\ result.v.backup_header.alternate_lba = result.v.header.my_lba
        /\ result.v.header.my_lba = ToLe(1, 8)
        /\ result.v.backup_header.disk_guid = result.v.header.disk_guid

\* C9: first_partition_byte_range returns NoPartitions for an empty array, and
\* otherwise exactly [starting_lba*512, (ending_lba+1)*512) of the first entry,
\* for every 64-bit starting_lba and ending_lba.
C9_ExactRangeOrNoPartitions ==
    ~IsPending(first_partition) =>
        IF result.v.partition_entry_array = <<>>
          THEN first_partition = Err(Error("NoPartitions"))
          ELSE /\ partition_byte_range(result.v.partition_entry_array[1]).ok
               /\ first_partition =
                    Ok(<<partition_byte_range(result.v.partition_entry_array[1]).start,
                         partition_byte_range(result.v.partition_entry_array[1]).end>>)

----------------------------------------------------------------------------
(* Claims about compare_header_and_backup_header (SpecMirror)              *)

AnyOfThree(primary, backup) ==
    \/ primary.my_lba = backup.alternate_lba
    \/ primary.alternate_lba = backup.my_lba
    \/ primary.disk_guid = backup.disk_guid

Expected(primary, backup) ==
    IF AnyOfThree(primary, backup) THEN Ok(<<>>)
    ELSE Err(Error("HeaderDoesNotMatchBackup"))

\* backup is primary with my_lba and alternate_lba swapped, disk_guid copied
BuiltBySwapping(primary, backup) ==
    backup = [primary EXCEPT !.my_lba = primary.alternate_lba,
                             !.alternate_lba = primary.my_lba]

\* C7: compare_header_and_backup_header(primary, backup) succeeds exactly when
\* primary.my_lba = backup.alternate_lba or primary.alternate_lba = backup.my_lba
\* or the disk GUIDs are equal, and fails with HeaderDoesNotMatchBackup when
\* none of the three holds; for a backup built from the primary by swapping the
\* two LBAs it succeeds with the arguments in either order.
C7_AnyOfThreeSuffices ==
    /\ ~IsPending(cmp_result[1]) => cmp_result[1] = Expected(cmp_args[1], cmp_args[2])
    /\ ~IsPending(cmp_result[2]) => cmp_result[2] = Expected(cmp_args[2], cmp_args[1])
    /\ BuiltBySwapping(cmp_args[1], cmp_args[2]) =>
        /\ ~IsPending(cmp_result[1]) => cmp_result[1].ok
        /\ ~IsPending(cmp_result[2]) => cmp_result[2].ok

\* two headers with nothing in common but the disk GUID, compared both ways,
\* both times with success
C7_Witness ==
    /\ cmp_args[1].my_lba # cmp_args[2].alternate_lba
    /\ cmp_args[1].alternate_lba # cmp_args[2].my_lba
    /\ cmp_args[2].my_lba # cmp_args[1].alternate_lba
    /\ cmp_args[1].disk_guid = cmp_args[2].disk_guid
    /\ cmp_result = <<Ok(<<>>), Ok(<<>>)>>

----------------------------------------------------------------------------
(* Claims about size_in_bytes_to_num_logical_blocks (SpecLayout)           *)

\* ((n - 1) / 512) + 1 for n > 0: on the integers for a small n, on words for
\* a large one
CeilingBlocks(n) ==
    IF IsSmall(n) THEN ToLe(((LeVal(n) - 1) \div LOGICAL_BLOCK_SIZE) + 1, 8)
    ELSE AddWord(DivBy512(SubWord(n, ToLe(1, 8)).v), ToLe(1, 8)).v

\* C10: size_in_bytes_to_num_logical_blocks(n) is ((n - 1) / 512) + 1, the
\* ceiling of n/512, for every n > 0, and 0 for n = 0.
C10_CeilingAndZero ==
    num_blocks # <<>> =>
        num_blocks = IF size = Zeros(8) THEN Zeros(8) ELSE CeilingBlocks(size)

----------------------------------------------------------------------------
(* Disk creation: the layout, the primary header, the protective MBR       *)

\* a <= b on two words of the same width
LeqWord(a, b) == SubWord(b, a).ok
\* a.min(b)
MinWord(a, b) == IF LeqWord(a, b) THEN a ELSE b

NUMBER_OF_PARTITION_ENTRIES == 4
SIZE_OF_PARTITION_ENTRY == 128
\* size_in_bytes_to_num_logical_blocks(NUMBER_OF_PARTITION_ENTRIES as u64
\*                                     * SIZE_OF_PARTITION_ENTRY as u64)
PARTITION_ARRAY_NUM_LBA ==
    size_in_bytes_to_num_logical_blocks(
        ToLe(NUMBER_OF_PARTITION_ENTRIES * SIZE_OF_PARTITION_ENTRY, 8))

\* a + b where a is the result of an earlier operation
ThenAdd(a, b) == Arith(a.ok /\ AddWord(a.v, b).ok, AddWord(a.v, b).v)
\* a - b where a is the result of an earlier operation
ThenSub(a, b) == Arith(a.ok /\ SubWord(a.v, b).ok, SubWord(a.v, b).v)

\* a variant of disk_size_in_lba that leaves no room for the backup array
DiskSizeWithoutBackupArray(bytes) ==
    ThenAdd(ThenAdd(ThenAdd(AddWord(ToLe(1, 8), ToLe(1, 8)),
                            PARTITION_ARRAY_NUM_LBA),
                    size_in_bytes_to_num_logical_blocks(bytes)),
            ToLe(1, 8))

\* disk_size_in_lba: 1 + 1 + PARTITION_ARRAY_NUM_LBA + blocks of the partition
\* + PARTITION_ARRAY_NUM_LBA + 1, added left to right
disk_size_in_lba(bytes) ==
    ThenAdd(ThenAdd(ThenAdd(ThenAdd(AddWord(ToLe(1, 8), ToLe(1, 8)),
                                    PARTITION_ARRAY_NUM_LBA),
                            size_in_bytes_to_num_logical_blocks(bytes)),
                    PARTITION_ARRAY_NUM_LBA),
            ToLe(1, 8))

\* GptHeader::new_primary: ok is FALSE when one of its subtractions underflows
new_primary(disk_size_in_lba_, disk_guid) ==
    Arith(/\ SubWord(disk_size_in_lba_, ToLe(1, 8)).ok
          /\ AddWord(ToLe(2, 8), PARTITION_ARRAY_NUM_LBA).ok
          /\ ThenSub(ThenSub(SubWord(disk_size_in_lba_, ToLe(1, 8)),
                             PARTITION_ARRAY_NUM_LBA), ToLe(1, 8)).ok,
          [revision |-> THIS_REVISION,
           header_size |-> ToLe(MIN_HEADER_SIZE, 4),
           header_crc32 |-> Zeros(4),
           my_lba |-> ToLe(1, 8),
           alternate_lba |-> SubWord(disk_size_in_lba_, ToLe(1, 8)).v,
           first_usable_lba |-> AddWord(ToLe(2, 8), PARTITION_ARRAY_NUM_LBA).v,
           last_usable_lba |->
               ThenSub(ThenSub(SubWord(disk_size_in_lba_, ToLe(1, 8)),
                               PARTITION_ARRAY_NUM_LBA), ToLe(1, 8)).v,
           disk_guid |-> disk_guid,
           partition_entry_lba |-> ToLe(2, 8),
           number_of_partition_entries |-> ToLe(NUMBER_OF_PARTITION_ENTRIES, 4),
           size_of_partition_entry |-> ToLe(SIZE_OF_PARTITION_ENTRY, 4),
           partition_entry_array_crc32 |-> Zeros(4)])

OS_TYPE_GPT_PROTECTIVE == \hEE
\* 0xFFFFFF and 0xFFFFFFFF, as u64
PARTITION_RECORD_MAX_ENDING_CHS == <<255, 255, 255, 0, 0, 0, 0, 0>>
PARTITION_RECORD_MAX_SIZE_IN_LBA == <<255, 255, 255, 255, 0, 0, 0, 0>>

\* MbrPartitionRecord::default()
DefaultPartitionRecord ==
    [boot_indicator |-> 0, starting_chs |-> Zeros(4), os_type |-> 0,
     ending_chs |-> Zeros(4), starting_lba |-> Zeros(4), size_in_lba |-> Zeros(4)]

\* `x as u32` for a u64 x
U64AsU32(w) == SubSeq(w, 1, 4)

\* MbrPartitionRecord::new_protective_with_disk_size_in_lba: ok is FALSE when
\* disk_size_in_lba - 1 underflows, disk_size_in_lba * 512 overflows or the
\* product - 1 underflows
ProtectiveRecord(d) ==
    Arith(/\ SubWord(d, ToLe(1, 8)).ok
          /\ MulBy512(d).ok
          /\ SubWord(MulBy512(d).v, ToLe(1, 8)).ok,
          [boot_indicator |-> 0,
           starting_chs |-> ToLe(512, 4),
           starting_lba |-> ToLe(1, 4),
           os_type |-> OS_TYPE_GPT_PROTECTIVE,
           size_in_lba |->
               U64AsU32(MinWord(SubWord(d, ToLe(1, 8)).v, PARTITION_RECORD_MAX_SIZE_IN_LBA)),
           ending_chs |->
               U64AsU32(MinWord(SubWord(MulBy512(d).v, ToLe(1, 8)).v,
                                PARTITION_RECORD_MAX_ENDING_CHS))])

\* Mbr::new_protective_with_disk_size_in_lba
ProtectiveMbr(d) ==
    Arith(ProtectiveRecord(d).ok,
          [boot_code |-> Zeros(BOOT_CODE_SIZE),
           unique_mbr_disk_signature |-> Zeros(4),
           partition_record |-> <<ProtectiveRecord(d).v, DefaultPartitionRecord,
                                  DefaultPartitionRecord, DefaultPartitionRecord>>,
           signature |-> MBR_REQUIRED_SIGNATURE])

\* a variant of RecordBytes that keeps the high 3 bytes of the CHS fields
RecordBytesHighChs(partition_record) ==
    <<partition_record.boot_indicator>>
    \o SubSeq(partition_record.starting_chs, 2, 4)
    \o <<partition_record.os_type>>
    \o SubSeq(partition_record.ending_chs, 2, 4)
    \o partition_record.starting_lba
    \o partition_record.size_in_lba

\* the 16 bytes of a partition record: the CHS fields keep their low 3 bytes
RecordBytes(partition_record) ==
    <<partition_record.boot_indicator>>
    \o SubSeq(partition_record.starting_chs, 1, 3)
    \o <<partition_record.os_type>>
    \o SubSeq(partition_record.ending_chs, 1, 3)
    \o partition_record.starting_lba
    \o partition_record.size_in_lba

\* the byte at offset i (0-based) of the encoding of a partition record that
\* starts at base_index
RecordByteAt(self, i) ==
    RecordBytes(self.partition_record[((i - PARTITION_RECORD_OFFSET)
                                        \div PARTITION_RECORD_SIZE) + 1])
        [((i - PARTITION_RECORD_OFFSET) % PARTITION_RECORD_SIZE) + 1]

\* Mbr::encode: a zeroed block with the fields copied to their offsets
Mbr_encode(self) ==
    [k \in 1..LOGICAL_BLOCK_SIZE |->
        IF k - 1 < BOOT_CODE_SIZE THEN self.boot_code[k]
        ELSE IF k - 1 < UNIQUE_MBR_SIGNATURE_OFFSET + 4
          THEN self.unique_mbr_disk_signature[k - UNIQUE_MBR_SIGNATURE_OFFSET]
        ELSE IF k - 1 < PARTITION_RECORD_OFFSET THEN 0
        ELSE IF k - 1 < PARTITION_RECORD_OFFSET
                        + PARTITION_RECORD_SIZE * PARTITION_RECORD_COUNT
          THEN RecordByteAt(self, k - 1)
        ELSE IF k - 1 < SIGNATURE_OFFSET THEN 0
        ELSE self.signature[k - SIGNATURE_OFFSET]]

----------------------------------------------------------------------------
(* disk_size_in_lba, GptHeader::new_primary and write_header on a size     *)

\* partition sizes of up to this many blocks are tried, each a whole number
\* of blocks, one byte more and one byte less
MaxCreateBlocks == 20

CreateSizes ==
    { ToLe(k * LOGICAL_BLOCK_SIZE + d, 8) : k \in 0..MaxCreateBlocks, d \in {0, 1, 511} }
    \cup LargeSizes

InitCreate ==
    /\ partition_size_bytes \in CreateSizes
    /\ disk_size = Pending /\ new_header = Pending
    /\ write_fails \in BOOLEAN
    /\ written = <<>> /\ write_result = Pending
    /\ overflow_checks \in BOOLEAN
    /\ disk = <<>> /\ io_fail_at = 0 /\ pc = "idle" /\ buf = <<>> /\ reads = <<>>
    /\ mbr = Pending /\ header = Pending /\ backup_header = Pending
    /\ partition_entry_array = Pending
    /\ result = Pending /\ first_partition = Pending
    /\ IdleParse /\ IdleCmp /\ IdleLayout /\ IdleCodec /\ IdleCrc

\* the value of an operation of the build: a panic when it overflowed and the
\* build checks, the wrapped value otherwise
Checked(r) ==
    IF ~r.ok /\ overflow_checks THEN Panic("arithmetic overflow") ELSE Ok(r.v)

DiskSizeInLba ==
    /\ IsPending(disk_size)
    /\ disk_size' = Checked(disk_size_in_lba(partition_size_bytes))
    /\ UNCHANGED <<partition_size_bytes, new_header, write_fails, written, write_result>>
    /\ UNCHANGED <<parse_vars, info_vars, cmp_vars, layout_vars, codec_vars, crc_vars>>

\* GptHeader::new_primary(disk_size_in_lba(partition_size_bytes), disk_guid)
NewPrimary ==
    /\ ~IsPending(disk_size) /\ disk_size.ok
    /\ IsPending(new_header)
    /\ \E g \in MirrorGuids :
        new_header' = Checked(new_primary(disk_size.v, guid_to_uuid(Guid(g))))
    /\ UNCHANGED <<partition_size_bytes, disk_size, write_fails, written, write_result>>
    /\ UNCHANGED <<parse_vars, info_vars, cmp_vars, layout_vars, codec_vars, crc_vars>>

\* handle.write_all(block).map_err(Error::Io)?; Ok(())
WriteAll(block) ==
    IF write_fails
      THEN written' = written /\ write_result' = Err(Error("Io"))
      ELSE written' = written \o block /\ write_result' = Ok(<<>>)

\* write_header(handle, partition_size_bytes)
WriteHeaderOf(d, m) ==
    IF ~d.ok THEN written' = written /\ write_result' = d
    ELSE IF ~m.ok THEN written' = written /\ write_result' = m
    ELSE WriteAll(Mbr_encode(m.v))

WriteHeaderWith(d) ==
    WriteHeaderOf(d, IF d.ok THEN Checked(ProtectiveMbr(d.v)) ELSE d)

WriteHeader ==
    /\ IsPending(write_result)
    /\ WriteHeaderWith(Checked(disk_size_in_lba(partition_size_bytes)))
    /\ UNCHANGED <<partition_size_bytes, disk_size, new_header, write_fails>>
    /\ UNCHANGED <<parse_vars, info_vars, cmp_vars, layout_vars, codec_vars, crc_vars>>

NextCreate == DiskSizeInLba \/ NewPrimary \/ WriteHeader

SpecCreate == InitCreate /\ [][NextCreate]_vars

----------------------------------------------------------------------------
(* Claims about the creation of a disk (SpecCreate)                        *)

\* C11: disk_size_in_lba(p) is 1 + 1 + ARRAY_LBA + blocks(p) + ARRAY_LBA + 1
\* with ARRAY_LBA = 1; it does not decrease when p grows; and the header that
\* GptHeader::new_primary builds for it has first_usable_lba <= last_usable_lba.
C11_LayoutOfDisk ==
    /\ PARTITION_ARRAY_NUM_LBA = ToLe(1, 8)
    /\ ~IsPending(disk_size) =>
        /\ disk_size = Ok(AddWord(ToLe(5, 8),
                                  size_in_bytes_to_num_logical_blocks(partition_size_bytes)).v)
        /\ \A q \in CreateSizes :
            LeqWord(q, partition_size_bytes)
                => LeqWord(disk_size_in_lba(q).v, disk_size.v)
    /\ ~IsPending(new_header) =>
        /\ new_header.ok
        /\ LeqWord(new_header.v.first_usable_lba, new_header.v.last_usable_lba)

\* a partition of one byte: a disk of 6 blocks whose only usable block is LB 3
C11_Witness ==
    /\ partition_size_bytes = ToLe(1, 8)
    /\ disk_size = Ok(ToLe(6, 8))
    /\ ~IsPending(new_header)
    /\ new_header.v.first_usable_lba = ToLe(3, 8)
    /\ new_header.v.last_usable_lba = ToLe(3, 8)

\* the block that the claim has write_header write for a disk of d blocks;
\* d - 1 and d * 512 - 1 are taken exactly, so the clamps are right whenever
\* the exact values are
ClaimedChs(d) ==
    IF MulBy512(d).ok
      THEN U64AsU32(MinWord(SubWord(MulBy512(d).v, ToLe(1, 8)).v,
                            PARTITION_RECORD_MAX_ENDING_CHS))
      ELSE U64AsU32(PARTITION_RECORD_MAX_ENDING_CHS)

ClaimedRecord(d) ==
    [boot_indicator |-> 0, starting_chs |-> ToLe(512, 4), os_type |-> \hEE,
     starting_lba |-> ToLe(1, 4),
     size_in_lba |-> U64AsU32(MinWord(SubWord(d, ToLe(1, 8)).v,
                                      PARTITION_RECORD_MAX_SIZE_IN_LBA)),
     ending_chs |-> ClaimedChs(d)]

ClaimedBlock(d) ==
    Zeros(PARTITION_RECORD_OFFSET) \o RecordBytes(ClaimedRecord(d))
    \o Zeros(3 * PARTITION_RECORD_SIZE) \o <<\h55, \hAA>>

\* C13: for every 64-bit partition_size_bytes write_header writes exactly one
\* 512-byte block, the protective MBR of d = disk_size_in_lba(partition_size_bytes):
\* record 0 with boot_indicator 0, starting_chs 512, os_type 0xEE, starting_lba
\* 1, size_in_lba = min(d - 1, 0xFFFFFFFF), ending_chs = min(d*512 - 1,
\* 0xFFFFFF), records 1 to 3 zero, signature 0xAA55, the clamps computed
\* without overflow or underflow.
C13_OneProtectiveBlock ==
    (~IsPending(write_result) /\ ~write_fails) =>
        /\ write_result = Ok(<<>>)
        /\ written = ClaimedBlock(disk_size_in_lba(partition_size_bytes).v)

----------------------------------------------------------------------------
(* Mbr::encode, Mbr::parse of the block, Mbr::encode of the Mbr parsed     *)

\* partition records: the default one, one with bits above bit 23 in both
\* CHS fields, one with every byte different
CodecRecords ==
    { DefaultPartitionRecord,
      [boot_indicator |-> \h80, starting_chs |-> <<1, 2, 3, 4>>, os_type |-> \hEE,
       ending_chs |-> <<255, 255, 255, 255>>, starting_lba |-> <<1, 0, 0, 0>>,
       size_in_lba |-> <<255, 255, 255, 255>>],
      [boot_indicator |-> 1, starting_chs |-> <<0, 2, 0, 0>>, os_type |-> 7,
       ending_chs |-> <<9, 8, 7, 0>>, starting_lba |-> <<5, 6, 7, 8>>,
       size_in_lba |-> <<4, 3, 2, 1>>] }

CodecMbrs ==
    { [boot_code |-> code, unique_mbr_disk_signature |-> sig,
       partition_record |-> <<r0, r1, r2, r3>>, signature |-> magic] :
        code \in {Zeros(BOOT_CODE_SIZE), [i \in 1..BOOT_CODE_SIZE |-> i % 256]},
        sig \in {Zeros(4), <<1, 2, 3, 4>>},
        r0 \in CodecRecords, r1 \in CodecRecords, r2 \in CodecRecords,
        r3 \in CodecRecords,
        magic \in {MBR_REQUIRED_SIGNATURE, <<\h55, \hAB>>} }

InitCodec ==
    /\ mbr_value \in CodecMbrs
    /\ encoded = Pending /\ reparsed = Pending /\ reencoded = Pending
    /\ IdleParse /\ IdleInfo /\ IdleCmp /\ IdleLayout /\ IdleCreate /\ IdleCrc

\* encoded = mbr_value.encode()
Encode ==
    /\ IsPending(encoded)
    /\ encoded' = Mbr_encode(mbr_value)
    /\ UNCHANGED <<mbr_value, reparsed, reencoded>>
    /\ UNCHANGED <<parse_vars, info_vars, cmp_vars, layout_vars, create_vars, crc_vars>>

\* reparsed = Mbr::parse(&encoded)
ParseEncoded ==
    /\ ~IsPending(encoded) /\ IsPending(reparsed)
    /\ reparsed' = Mbr_parse(encoded)
    /\ UNCHANGED <<mbr_value, encoded, reencoded>>
    /\ UNCHANGED <<parse_vars, info_vars, cmp_vars, layout_vars, create_vars, crc_vars>>

\* reencoded = reparsed.encode()
EncodeAgain ==
    /\ ~IsPending(reparsed) /\ reparsed.ok /\ IsPending(reencoded)
    /\ reencoded' = Mbr_encode(reparsed.v)
    /\ UNCHANGED <<mbr_value, encoded, reparsed>>
    /\ UNCHANGED <<parse_vars, info_vars, cmp_vars, layout_vars, create_vars, crc_vars>>

NextCodec == Encode \/ ParseEncoded \/ EncodeAgain

SpecCodec == InitCodec /\ [][NextCodec]_vars

\* C12: for any Mbr whose signature is 0xAA55, whatever its boot code, disk
\* signature and partition records (CHS fields with bits above bit 23 set
\* included), Mbr::parse of its encoding succeeds, and the encoding of the Mbr
\* parsed is the first encoding, byte for byte.
C12_MbrRoundTrip ==
    mbr_value.signature = MBR_REQUIRED_SIGNATURE =>
        /\ ~IsPending(reparsed) => reparsed.ok
        /\ ~IsPending(reencoded) => reencoded = encoded

\* an Mbr whose record 0 has a CHS field above 0xFFFFFF: parse returns another
\* Mbr, which encodes to the same block
C12_Witness ==
    /\ mbr_value.signature = MBR_REQUIRED_SIGNATURE
    /\ mbr_value.partition_record[1].starting_chs[4] # 0
    /\ ~IsPending(reencoded)
    /\ reparsed.v # mbr_value
    /\ reencoded = encoded

----------------------------------------------------------------------------
(* crc32 on a byte sequence, against the CRC-32 defined bit by bit         *)

\* 0xEDB88320
CRC32_POLYNOMIAL == W(\hED, \hB8, \h83, \h20)

\* u32 ^ u32 and u32 >> 1
XorWord(a, b) ==
    <<XorByte(a[1], b[1]), XorByte(a[2], b[2]), XorByte(a[3], b[3]), XorByte(a[4], b[4])>>
ShiftRight1(w) ==
    <<(w[1] \div 2) + 128 * (w[2] % 2), (w[2] \div 2) + 128 * (w[3] % 2),
      (w[3] \div 2) + 128 * (w[4] % 2), w[4] \div 2>>

\* one reflected step: shift right, XOR the polynomial in when a one fell out
ReflectedStep(reg) ==
    IF reg[1] % 2 = 1 THEN XorWord(ShiftRight1(reg), CRC32_POLYNOMIAL)
    ELSE ShiftRight1(reg)

RECURSIVE ReflectedSteps(_, _)
ReflectedSteps(reg, n) ==
    IF n = 0 THEN reg ELSE ReflectedSteps(ReflectedStep(reg), n - 1)

\* the reflected CRC-32 of a byte sequence, bit by bit: the register starts at
\* 0xFFFFFFFF, each byte in index order is XORed into its low byte and eight
\* steps follow, and the register is XORed with 0xFFFFFFFF at the end.  The
\* range bytes[lo..hi] is folded in halves, the left half first.
RECURSIVE BitwiseRegister(_, _, _, _)
BitwiseRegister(reg, bytes, lo, hi) ==
    IF lo > hi THEN reg
    ELSE IF lo = hi THEN ReflectedSteps(XorWord(reg, <<bytes[lo], 0, 0, 0>>), 8)
    ELSE LET mid == (lo + hi) \div 2
             left == BitwiseRegister(reg, bytes, lo, mid)
         IN  IF Len(left) = 4 THEN BitwiseRegister(left, bytes, mid + 1, hi) ELSE left

BitwiseCrc32(bytes) ==
    XorWord(BitwiseRegister(<<255, 255, 255, 255>>, bytes, 1, Len(bytes)),
            <<255, 255, 255, 255>>)

\* byte sequences of up to this length over CrcAlphabet are tried
MaxCrcLen == 3
CrcAlphabet == {0, 1, \h80, \hFF}

RECURSIVE SeqsUpTo(_)
SeqsUpTo(n) ==
    IF n = 0 THEN {<<>>}
    ELSE SeqsUpTo(n - 1)
         \cup { Append(s, b) : s \in { t \in SeqsUpTo(n - 1) : Len(t) = n - 1 },
                               b \in CrcAlphabet }

\* "hello"
Hello == <<104, 101, 108, 108, 111>>

\* every single byte (every index of the table), short sequences, "hello",
\* and a block of 512 bytes
CrcInputs ==
    { <<b>> : b \in Byte } \cup SeqsUpTo(MaxCrcLen) \cup {Hello}
    \cup { [i \in 1..LOGICAL_BLOCK_SIZE |-> (7 * i) % 256] }

InitCrc ==
    /\ data \in CrcInputs
    /\ checksum = Pending
    /\ IdleParse /\ IdleInfo /\ IdleCmp /\ IdleLayout /\ IdleCreate /\ IdleCodec

Crc32 ==
    /\ IsPending(checksum)
    /\ checksum' = crc32(data)
    /\ UNCHANGED <<data, parse_vars, info_vars, cmp_vars, layout_vars, create_vars,
                   codec_vars>>

NextCrc == Crc32

SpecCrc == InitCrc /\ [][NextCrc]_vars

\* C14: crc32(bytes) is the reflected CRC-32 defined bit by bit (polynomial
\* 0xEDB88320, register initially 0xFFFFFFFF, final XOR 0xFFFFFFFF) for every
\* byte sequence; each table entry CRC32_LUT[i] is the result of eight
\* reflected steps applied to i (checked for every byte i of the sequence, and
\* every byte is a sequence); crc32 of "hello" is 0x3610A686.
C14_TableIsBitwiseCrc ==
    /\ Len(CRC32_LUT) = 256
    /\ \A k \in 1..Len(data) :
        CRC32_LUT[data[k] + 1] = ReflectedSteps(<<data[k], 0, 0, 0>>, 8)
    /\ ~IsPending(checksum) =>
        /\ checksum = BitwiseCrc32(data)
        /\ data = Hello => checksum = W(\h36, \h10, \hA6, \h86)

\* the checksum of "hello" computed
C14_Witness ==
    /\ data = Hello
    /\ ~IsPending(checksum)
    /\ checksum = W(\h36, \h10, \hA6, \h86)

----------------------------------------------------------------------------
(* decoding the partition entry array                                      *)

\* the chunks PartitionEntry::parse_array hands to PartitionEntry::parse
ChunksHanded(bytes, h) ==
    Chunks(bytes, ChunkSize(h.size_of_partition_entry, Len(bytes)))

\* C15: once the MBR and both headers have passed and the entry-array checksum
\* matches, the chunk size size_of_partition_entry is non-zero, every chunk
\* handed to PartitionEntry::parse has at least 128 bytes, and
\* size_of_partition_entry * number_of_partition_entries fits in 32 bits;
\* gpt_info never ends in a panic; and the number of decoded entries is the
\* primary header's number_of_partition_entries.
C15_ArrayDecodeFaultFree ==
    /\ (pc = "parse_array" /\ crc32(buf) = header.partition_entry_array_crc32) =>
        /\ header.size_of_partition_entry # Zeros(4)
        /\ \A k \in 1..Len(ChunksHanded(buf, header)) :
             Len(ChunksHanded(buf, header)[k]) >= 128
        /\ MulU32(header.size_of_partition_entry, header.number_of_partition_entries).ok
    /\ pc = "done" => ~IsPanic(result)
    /\ pc \in {"read_backup_array", "parse_backup_array"} =>
        ToLe(Len(partition_entry_array), 4) = header.number_of_partition_entries
====
